---- MODULE Spec2Model ----
(***************************************************************************)
(* throne-api: the staff roster handler (Endpoints.HandleStaff), the votes *)
(* handler (Endpoints.HandleVoters) and the player handler                 *)
(* (Endpoints.HandlePlayer) of src/endpoints.go.  The enrichment loop of   *)
(* the staff handler is also run on its own, over whole sequences of rows. *)
(*                                                                         *)
(* One staff request is modelled as four goroutines: the HTTP handler, the *)
(* coordinator it spawns, and the two scans the coordinator spawns.  Every *)
(* action is one goroutine running from one blocking operation (a query, a *)
(* rows.Next, a channel operation, the select) to the next.                *)
(*                                                                         *)
(* Strings that the code only compares (rank names, usernames, error       *)
(* texts) are TLA+ strings.  Strings that the code parses character by     *)
(* character (the limit parameter, weight values, prefix literals) are     *)
(* sequences of one-character strings.  A permission node is held as the   *)
(* sequence of its dot-separated segments, which is what strings.Split     *)
(* returns for it.                                                         *)
(***************************************************************************)
EXTENDS Integers, Sequences, FiniteSets, TLC

\* ------------------------------------------------------------------------
\* Bounds of the model
\* ------------------------------------------------------------------------

\* Rows the query of Scan A returns at most.
MaxPlayerRows == 2

\* Rows the query of Scan B returns at most.
MaxPermissionRows == 2

\* Rows the enrichment query returns at most.
MaxEnrichRows == 2

\* Length of the limit parameter at most.
MaxLimitLen == 3

\* Rows the votes query returns at most.
MaxVoteRows == 2

\* Members a scan collects for one rank at most, in the merge on its own.
MaxMembers == 2

\* ------------------------------------------------------------------------
\* Program constants
\* ------------------------------------------------------------------------

StatusOK == 200

StatusBadRequest == 400

StatusInternalServerError == 500

StatusNotImplemented == 501

okStatus == "ok"

errorStatus == "error"

\* make(chan interface{}, 1)
ResultChCap == 1

\* make(chan map[string]*GroupInfo, 1)
ScanChCap == 1

\* votersLimit := -1
NoLimit == -1

\* ------------------------------------------------------------------------
\* Data the handlers work on
\* ------------------------------------------------------------------------

\* The configured allow-list (config.Database.StaffGroupNames).
checkedRankNames == {"mod", "admin"}

\* Rank names the database may mention; "guest" and "Mod" are not allow-listed.
DbRankNames == {"mod", "admin", "guest", "Mod"}

\* Usernames the database may return, in ascending byte order.
UsernameOrder == <<"alice", "bob">>

Usernames == {UsernameOrder[i] : i \in 1..Len(UsernameOrder)}

\* Errors a query may return while the context is live.
DbErrors == {"bad connection", "access denied"}

\* The error of a query run under a context that is done.
CtxError(c) == IF c = "deadline" THEN "context deadline exceeded" ELSE "context canceled"

Range(s) == {s[i] : i \in 1..Len(s)}

\* GroupInfo{} : the zero value.
GroupInfoZero == [Title |-> <<>>, Color |-> "", Weight |-> 0, Members |-> <<>>]

\* map[string]*GroupInfo{}
EmptyMap == [r \in {} |-> GroupInfoZero]

\* An append that is skipped for the row that creates the entry.
AppendMemberIfPresent(m, rank, username) ==
    IF rank \in DOMAIN m
        THEN [m EXCEPT ![rank].Members = Append(@, username)]
        ELSE [r \in (DOMAIN m) \cup {rank} |-> IF r = rank THEN GroupInfoZero ELSE m[r]]

\* if _, ok := collected[rank]; !ok { collected[rank] = &GroupInfo{} }
\* collected[rank].Members = append(collected[rank].Members, username)
AppendMember(m, rank, username) ==
    LET base == IF rank \in DOMAIN m THEN m[rank] ELSE GroupInfoZero
    IN [r \in (DOMAIN m) \cup {rank} |->
           IF r = rank THEN [base EXCEPT !.Members = Append(@, username)]
                       ELSE m[r]]

\* if _, ok := checkedRankNames[rank]; !ok { continue }
IsCheckedAnyRank(rank) == TRUE

IsChecked(rank) == rank \in checkedRankNames

\* a < b for the strings of UsernameOrder, as sort.Strings compares them.
StrLess(a, b) ==
    \E i, j \in 1..Len(UsernameOrder) :
        /\ UsernameOrder[i] = a
        /\ UsernameOrder[j] = b
        /\ i < j

\* Insert x into the sorted sequence s, after the elements not greater.
RECURSIVE InsertSorted(_, _)
InsertSorted(x, s) ==
    IF s = <<>> THEN <<x>>
    ELSE IF StrLess(x, Head(s)) THEN <<x>> \o s
    ELSE <<Head(s)>> \o InsertSorted(x, Tail(s))

RECURSIVE SortFrom(_, _)
SortFrom(s, acc) ==
    IF s = <<>> THEN acc ELSE SortFrom(Tail(s), InsertSorted(Head(s), acc))

\* sort.Strings(rank.Members)
SortStringsNoop(s) == s

SortStrings(s) == SortFrom(s, <<>>)

\* for k, v := range s { collectedRanks[k] = v }
CopyInto(collected, s) ==
    [r \in (DOMAIN collected) \cup (DOMAIN s) |->
        IF r \in DOMAIN s THEN s[r] ELSE collected[r]]

\* The members of one rank after the user permissions scan was merged in:
\* existingMembers is built from the rank's members before the loop and is
\* not extended while appending.
MergeMembers(members, scanned) ==
    members \o SelectSeq(scanned, LAMBDA name : name \notin Range(members))

\* for rankName, collectedRank := range s { ... }
MergeInto(collected, s) ==
    [r \in (DOMAIN collected) \cup (DOMAIN s) |->
        IF r \in DOMAIN collected /\ r \in DOMAIN s
            THEN [collected[r] EXCEPT !.Members = MergeMembers(@, s[r].Members)]
        ELSE IF r \in DOMAIN s THEN s[r]
        ELSE collected[r]]

\* for _, rank := range collectedRanks { sort.Strings(rank.Members) }
SortAll(collected) ==
    [r \in DOMAIN collected |->
        [collected[r] EXCEPT !.Members = SortStrings(@)]]

\* ------------------------------------------------------------------------
\* Text functions: strconv.Atoi, chatColorRegexp, chatColorsToHex
\* ------------------------------------------------------------------------

Digits == <<"0", "1", "2", "3", "4", "5", "6", "7", "8", "9">>

IsDigit(c) == \E i \in 1..10 : Digits[i] = c

\* ch - '0'
DigitVal(c) == (CHOOSE i \in 1..10 : Digits[i] = c) - 1

\* n = n*10 + int(ch), over the digits of s from the left.
RECURSIVE AtoiDigits(_, _)
AtoiDigits(s, n) ==
    IF s = <<>> THEN n ELSE AtoiDigits(Tail(s), n * 10 + DigitVal(Head(s)))

\* The digits of the greatest int of a 64 bit build, and of the magnitude of
\* the least.
MaxIntDigits == <<"9", "2", "2", "3", "3", "7", "2", "0", "3", "6", "8", "5", "4", "7",
                  "7", "5", "8", "0", "7">>

MinIntDigits == <<"9", "2", "2", "3", "3", "7", "2", "0", "3", "6", "8", "5", "4", "7",
                  "7", "5", "8", "0", "8">>

RECURSIVE StripZeros(_)
StripZeros(s) == IF s # <<>> /\ Head(s) = "0" THEN StripZeros(Tail(s)) ELSE s

\* a <= b for two digit strings of the same length.
RECURSIVE DigitsLeq(_, _)
DigitsLeq(a, b) ==
    IF a = <<>> THEN TRUE
    ELSE IF DigitVal(Head(a)) < DigitVal(Head(b)) THEN TRUE
    ELSE IF DigitVal(Head(a)) > DigitVal(Head(b)) THEN FALSE
    ELSE DigitsLeq(Tail(a), Tail(b))

\* The value of the digits fits an int: no range error from strconv.ParseInt.
InRange(digits, negative) ==
    LET d == StripZeros(digits)
    IN \/ Len(d) < Len(MaxIntDigits)
       \/ /\ Len(d) = Len(MaxIntDigits)
          /\ DigitsLeq(d, IF negative THEN MinIntDigits ELSE MaxIntDigits)

\* strconv.Atoi of a 64 bit build: an optional sign, then one or more
\* decimal digits; strings of 19 bytes and more take the path through
\* strconv.ParseInt, which also fails for a value out of range.
\* ok = FALSE is a non-nil error.
AtoiLenient(s) == [ok |-> TRUE, num |-> Len(s)]

Atoi(s) ==
    IF Len(s) = 0 THEN [ok |-> FALSE, num |-> 0]
    ELSE LET digits == IF s[1] \in {"-", "+"} THEN Tail(s) ELSE s
         IN IF Len(digits) < 1 THEN [ok |-> FALSE, num |-> 0]
            ELSE IF \E i \in 1..Len(digits) : ~IsDigit(digits[i])
                THEN [ok |-> FALSE, num |-> 0]
            ELSE IF Len(s) >= 19 /\ ~InRange(digits, s[1] = "-")
                THEN [ok |-> FALSE, num |-> 0]
            ELSE [ok |-> TRUE,
                  num |-> IF s[1] = "-" THEN 0 - AtoiDigits(digits, 0)
                                        ELSE AtoiDigits(digits, 0)]

UpperLetters == <<"A", "B", "C", "D", "E", "F", "G", "H", "I", "J", "K", "L", "M",
                  "N", "O", "P", "Q", "R", "S", "T", "U", "V", "W", "X", "Y", "Z">>

LowerLetters == <<"a", "b", "c", "d", "e", "f", "g", "h", "i", "j", "k", "l", "m",
                  "n", "o", "p", "q", "r", "s", "t", "u", "v", "w", "x", "y", "z">>

\* strings.ToLower on one character.
ToLowerChar(c) ==
    IF \E i \in 1..26 : UpperLetters[i] = c
        THEN LowerLetters[CHOOSE i \in 1..26 : UpperLetters[i] = c]
        ELSE c

ToLower(s) == [i \in 1..Len(s) |-> ToLowerChar(s[i])]

\* The section sign, a two byte character in UTF-8, and its second byte.
SectionSign == "SECTION SIGN"

SectionSignByte2 == "0xA7"

\* [0-9A-FK-OR] under (?i)
IsColorCode(c) ==
    \/ IsDigit(c)
    \/ ToLowerChar(c) \in {"a", "b", "c", "d", "e", "f", "k", "l", "m", "n", "o", "r"}

\* chatColorRegexp = "(?i)[&SECTION SIGN][0-9A-FK-OR]" matches at position i of s.
ColorMatchAt(s, i) ==
    /\ i + 1 <= Len(s)
    /\ s[i] \in {"&", SectionSign}
    /\ IsColorCode(s[i + 1])

\* chatColorRegexp.FindAllString(s, -1): the leftmost non-overlapping matches.
RECURSIVE FindAllFrom(_, _)
FindAllFrom(s, i) ==
    IF i > Len(s) THEN <<>>
    ELSE IF ColorMatchAt(s, i) THEN <<SubSeq(s, i, i + 1)>> \o FindAllFrom(s, i + 2)
    ELSE FindAllFrom(s, i + 1)

FindAllString(s) == FindAllFrom(s, 1)

\* chatColorRegexp.ReplaceAllString(s, "")
RECURSIVE StripFrom(_, _)
StripFrom(s, i) ==
    IF i > Len(s) THEN <<>>
    ELSE IF ColorMatchAt(s, i) THEN StripFrom(s, i + 2)
    ELSE <<s[i]>> \o StripFrom(s, i + 1)

\* A replacement of the last match only.
ReplaceLastString(s) ==
    LET starts == {i \in 1..Len(s) : ColorMatchAt(s, i)}
    IN IF starts = {} THEN s
       ELSE LET k == CHOOSE i \in starts : \A j \in starts : j <= i
            IN SubSeq(s, 1, k - 1) \o SubSeq(s, k + 2, Len(s))

ReplaceAllString(s) == StripFrom(s, 1)

\* match[1:] : the match without its first byte.  The section sign is two
\* bytes long, so its second byte stays in front of the code character.
ByteTail(match) ==
    IF match[1] = SectionSign THEN <<SectionSignByte2, match[2]>> ELSE Tail(match)

chatColorsToHex ==
    [c \in {"0", "1", "2", "3", "4", "5", "6", "7", "8", "9",
            "a", "b", "c", "d", "e", "f"} |->
        CASE c = "0" -> "#000000"
          [] c = "1" -> "#0000AA"
          [] c = "2" -> "#00AA00"
          [] c = "3" -> "#00AAAA"
          [] c = "4" -> "#AA0000"
          [] c = "5" -> "#AA00AA"
          [] c = "6" -> "#FFAA00"
          [] c = "7" -> "#AAAAAA"
          [] c = "8" -> "#555555"
          [] c = "9" -> "#5555FF"
          [] c = "a" -> "#55FF55"
          [] c = "b" -> "#55FFFF"
          [] c = "c" -> "#FF5555"
          [] c = "d" -> "#FF55FF"
          [] c = "e" -> "#FFFF55"
          [] c = "f" -> "#FFFFFF"]

\* hexColor, ok := chatColorsToHex[key] : the keys are one character long.
HasHexColor(key) == Len(key) = 1 /\ key[1] \in DOMAIN chatColorsToHex

\* A Color assigned from the table without a look at ok.
ColorAfterUnchecked(color, minecraftPrefix) ==
    LET colorMatches == FindAllString(minecraftPrefix)
    IN IF Len(colorMatches) > 0
          THEN LET foundColor == ToLower(ByteTail(colorMatches[Len(colorMatches)]))
               IN IF HasHexColor(foundColor) THEN chatColorsToHex[foundColor[1]]
                                             ELSE ""
          ELSE color

\* The Color of a rank after a prefix literal was applied to it.
ColorAfter(color, minecraftPrefix) ==
    LET colorMatches == FindAllString(minecraftPrefix)
    IN IF Len(colorMatches) > 0
          THEN LET foundColor == ToLower(ByteTail(colorMatches[Len(colorMatches)]))
               IN IF HasHexColor(foundColor) THEN chatColorsToHex[foundColor[1]]
                                             ELSE color
          ELSE color

\* strings.ReplaceAll(chatColorRegexp.ReplaceAllString(minecraftPrefix, ""), `\`, "")
TitleOf(minecraftPrefix) ==
    SelectSeq(ReplaceAllString(minecraftPrefix), LAMBDA c : c # "\\")

WEIGHT == <<"w", "e", "i", "g", "h", "t">>

PREFIX == <<"p", "r", "e", "f", "i", "x">>

\* The second segment whatever the segment count.
PrefixLiteralSecond(split) == split[2]

\* switch len(split) { case 2: split[1]; case 3: split[2]; default: "" }
PrefixLiteral(split) ==
    IF Len(split) = 2 THEN split[2]
    ELSE IF Len(split) = 3 THEN split[3]
    ELSE <<>>

\* The body of the enrichment loop for one decoded row (groupName, split),
\* split being strings.Split(permissionNode, ".") with at least two segments.
ApplyEnrichRowCreating(collected, groupName, split) ==
    [r \in (DOMAIN collected) \cup {groupName} |->
        IF r \in DOMAIN collected THEN collected[r] ELSE GroupInfoZero]

\* A loop body that puts a new GroupInfo in the place of the rank's.
ApplyEnrichRowFresh(collected, groupName, split) ==
    IF groupName \in DOMAIN collected
        THEN [collected EXCEPT ![groupName] =
                [GroupInfoZero EXCEPT !.Title = TitleOf(PrefixLiteral(split))]]
        ELSE collected

ApplyEnrichRow(collected, groupName, split) ==
    IF split[1] = WEIGHT THEN
        LET parsed == Atoi(split[2])
        IN IF parsed.ok /\ groupName \in DOMAIN collected
              THEN [collected EXCEPT ![groupName].Weight = parsed.num]
              ELSE collected
    ELSE IF split[1] = PREFIX THEN
        LET minecraftPrefix == PrefixLiteral(split)
        IN IF groupName \in DOMAIN collected
              THEN [collected EXCEPT
                        ![groupName].Color = ColorAfter(@, minecraftPrefix),
                        ![groupName].Title = TitleOf(minecraftPrefix)]
              ELSE collected
    ELSE collected


\* An index split[2] taken whatever the segment count.
EnrichRowFaultsThird(split) == Len(split) < 3

\* The index split[1] of the weight case: out of range on a one-segment node.
EnrichRowFaults(split) == split[1] = WEIGHT /\ Len(split) < 2

\* The characters of the rank names of the allow-list.
RankNameChars ==
    [rank \in checkedRankNames |->
        IF rank = "mod" THEN <<"m", "o", "d">> ELSE <<"a", "d", "m", "i", "n">>]

\* Every order in which a range over a map with the keys S may visit them.
RECURSIVE RangeOrders(_)
RangeOrders(S) ==
    IF S = {} THEN {<<>>}
    ELSE UNION {{<<k>> \o order : order \in RangeOrders(S \ {k})} : k \in S}

\* fmt.Fprintf(&groupNamesQuery, "name = '%s' or ", rankName)
NameTerm(rankName) ==
    <<"n", "a", "m", "e", " ", "=", " ", "'">> \o RankNameChars[rankName]
        \o <<"'", " ", "o", "r", " ">>

\* The terms written for the ranks in the order the range visits them.
RECURSIVE WriteTerms(_)
WriteTerms(order) ==
    IF order = <<>> THEN <<>>
    ELSE NameTerm(Head(order)) \o WriteTerms(Tail(order))

\* groupNamesQuery once the ranks are written, or "1 or " when there is none.
groupNamesQueryNoFallback(order) == WriteTerms(order)

groupNamesQuery(order) ==
    IF Len(order) > 0 THEN WriteTerms(order)
    ELSE <<"1", " ", "o", "r", " ">>

\* s[:n], which panics when n is out of range.
SliceTo(s, n) ==
    IF n < 0 \/ n > Len(s) THEN [ok |-> FALSE, text |-> <<>>]
    ELSE [ok |-> TRUE, text |-> SubSeq(s, 1, n)]

\* groupNamesQuery.String()[:groupNamesQuery.Len()-4]
NameFilter(order) ==
    SliceTo(groupNamesQuery(order), Len(groupNamesQuery(order)) - 4)

\* The name filters the coordinator may build for the mapping collected.
NameFilters(collected) == {NameFilter(order) : order \in RangeOrders(DOMAIN collected)}


\* ------------------------------------------------------------------------
\* State
\* ------------------------------------------------------------------------

VARIABLES
    \* HandleStaff
    ctx,             \* ctx.Err(): "live", "deadline" or "canceled"
    resultCh,        \* the values buffered in resultCh
    resultLog,       \* every send on resultCh so far: its kind and ctx at the send
    hpc,             \* the handler: "select", "chosen", "done"
    hres,            \* the case the handler's select has taken
    w,               \* the responses written to the http.ResponseWriter
    gpc,             \* the coordinator goroutine
    collectedRanks,  \* its map collectedRanks
    gErr,            \* the error of the enrichment query
    eRead,           \* rows of rows3 read so far
    primaryGroupsScanned,    \* the values buffered in that channel
    userPermissionsScanned,  \* the values buffered in that channel
    apc,             \* the primary groups scan (Scan A)
    aCollected,      \* its map collected
    aErr,            \* the error of its query
    aRead,           \* rows of rows1 read so far
    primaryGroup,    \* its variable primaryGroup: the group of the row decoded last
    aRowsErr,        \* rows1.Err() once rows1.Next() was false
    bpc,             \* the user permissions scan (Scan B)
    bCollected,      \* its map collected
    bErr,            \* the error of its query
    bRead,           \* rows of rows2 read so far
    permissionNode,  \* its variable permissionNode, split at the dots
    bRowsErr,        \* rows2.Err() once rows2.Next() was false
    qlog,            \* per query, the outcomes of its executions so far
    \* HandleVoters
    limitStr,        \* r.URL.Query().Get("limit")
    vpc,             \* the handler: "parse", "select", "chosen", "done"
    votersLimit,
    vctx,
    vResultCh,
    vres,            \* the case the handler's select has taken
    vw,              \* the responses written
    wpc,             \* the worker goroutine
    voters,          \* its slice voters
    vErr,            \* the error of its query
    vRead,           \* rows read so far
    vLast,           \* votes of the row returned last, 0 before the first
    \* HandlePlayer
    ppc,             \* the handler: "start", "done"
    pw,              \* the responses written
    \* The enrichment loop of HandleStaff on its own
    enrichPc,        \* "rows" while rows3.Next() may still be true, "end" after
    enrichStart,     \* collectedRanks as the loop found it
    enrichRanks,     \* collectedRanks now
    enrichRows,      \* the rows the loop body has run for, in row order
    \* A second staff request
    other,           \* the state of the invocation of HandleStaff that is not running
    \* The waits, the merge and the sort of HandleStaff on their own
    mergePc,         \* "wait1", "copy", "wait2", "merge", "sort", "done"
    scanned,         \* the mappings the two scans deliver
    arrived,         \* the scans that have delivered, in the order they did
    mergeRanks,      \* collectedRanks now
    mergeTodo        \* the keys the range loop under way has yet to visit

staffVars == <<ctx, resultCh, resultLog, hpc, hres, w, gpc, collectedRanks, gErr,
               eRead, primaryGroupsScanned, userPermissionsScanned, apc, aCollected,
               aErr, aRead, primaryGroup, aRowsErr, bpc, bCollected, bErr, bRead,
               permissionNode, bRowsErr, qlog>>

votesVars == <<limitStr, vpc, votersLimit, vctx, vResultCh, vres, vw, wpc, voters,
               vErr, vRead, vLast>>

playerVars == <<ppc, pw>>

enrichVars == <<enrichPc, enrichStart, enrichRanks, enrichRows>>

mergeVars == <<mergePc, scanned, arrived, mergeRanks, mergeTodo>>

vars == <<staffVars, votesVars, playerVars, enrichVars, other, mergeVars>>

\* ------------------------------------------------------------------------
\* Values on channels, responses
\* ------------------------------------------------------------------------

\* The values of dynamic type error and map[string]*GroupInfo sent on resultCh.
ErrorValue(text) == [kind |-> "error", text |-> text]

MapValueFresh(m) == [kind |-> "map", groups |-> [r \in {} |-> m]]

MapValue(m) == [kind |-> "map", groups |-> m]

NoCase == [case |-> "none"]

\* The bodies handed to writeResponse.
StringBody(text) == [type |-> "string", text |-> text]

GroupsBody(m) == [type |-> "groups", groups |-> m]

\* writeResponse(w, status, body): the status line and the encoded envelope.
writeResponseAlwaysOk(status, body) ==
    [status |-> status, Status |-> okStatus, Data |-> body]

writeResponse(status, body) ==
    [status |-> status,
     Status |-> IF status = StatusOK THEN okStatus ELSE errorStatus,
     Data |-> body]

\* The cases of the handler's select that can proceed.
ReadyCasesNoDone(ch, c) ==
    IF Len(ch) > 0 THEN {[case |-> "result", value |-> Head(ch)]} ELSE {}

ReadyCases(ch, c) ==
    (IF Len(ch) > 0 THEN {[case |-> "result", value |-> Head(ch)]} ELSE {})
        \cup (IF c # "live" THEN {[case |-> "done"]} ELSE {})

\* The body of the select case taken in HandleStaff.
StaffResponseAsserted(res) ==
    IF res.case = "result"
        THEN IF res.value.kind # "error"
                THEN writeResponse(StatusInternalServerError, StringBody("database access error"))
                ELSE writeResponse(StatusOK, StringBody(res.value.text))
        ELSE writeResponse(StatusInternalServerError, StringBody("timed out"))

StaffResponseOneText(res) ==
    IF res.case = "result" /\ res.value.kind # "error"
        THEN writeResponse(StatusOK, GroupsBody(res.value.groups))
        ELSE writeResponse(StatusInternalServerError, StringBody("database access error"))

StaffResponse(res) ==
    IF res.case = "result"
        THEN IF res.value.kind = "error"
                THEN writeResponse(StatusInternalServerError, StringBody("database access error"))
                ELSE writeResponse(StatusOK, GroupsBody(res.value.groups))
        ELSE writeResponse(StatusInternalServerError, StringBody("timed out"))

\* cancel(), deferred or by the deadline timer: the first cause stays.
Cancelled(c, cause) == IF c = "live" THEN cause ELSE c

\* Errors that end the iteration over rows while the context is live.
IterErrors == {"unexpected EOF"}

\* rows.Err() once rows.Next() is false under context c: nil at the end of
\* the result, or the error that ended the iteration before it.
RowsEndOutcomes(c) ==
    {""} \cup (IF c = "live" THEN IterErrors ELSE {CtxError(c)})

\* The outcomes of a query that does not look at its context.
QueryOutcomesBackground(c) ==
    {[ok |-> TRUE, err |-> ""]} \cup {[ok |-> FALSE, err |-> e] : e \in DbErrors}

\* A query's outcomes under context c: it succeeds only while c is live; it
\* fails with a database error while c is live and with c's error after.
QueryOutcomes(c) ==
    IF c = "live" THEN {[ok |-> TRUE, err |-> ""]} \cup {[ok |-> FALSE, err |-> e] : e \in DbErrors}
    ELSE {[ok |-> FALSE, err |-> CtxError(c)]}

Logged(q, outcome) == [qlog EXCEPT ![q] = Append(@, IF outcome.ok THEN "ok" ELSE "err")]

LoggedSend(kind) == Append(resultLog, [kind |-> kind, ctx |-> ctx])


\* ------------------------------------------------------------------------
\* Rows the queries may return
\* ------------------------------------------------------------------------

\* (username, primary_group) rows of the players table.
PlayerRows == {<<username, group>> : username \in Usernames, group \in DbRankNames}

\* Permission nodes matching 'group.%', as strings.Split(node, ".") gives them.
GroupNodes == {<<"group", r>> : r \in DbRankNames} \cup {<<"group", "mod", "extra">>}

\* (permission, name) rows of the user_permissions table.
UserPermissionRows == {<<split, username>> : split \in GroupNodes, username \in Usernames}

\* Prefix literals: "&c&lStaff", "&aVIP", SECTION SIGN + "bX", "\Y".
PrefixLiterals ==
    { <<"&", "c", "&", "l", "S", "t", "a", "f", "f">>,
      <<"&", "a", "V", "I", "P">>,
      <<SectionSign, "b", "X">>,
      <<"\\", "Y">> }

\* Permission nodes matching 'prefix.%' or 'weight.%', split at the dots.
EnrichNodes ==
    { <<WEIGHT, <<"5">>>>, <<WEIGHT, <<"a", "b", "c">>>> }
        \cup {<<PREFIX, lit>> : lit \in PrefixLiterals}
        \cup { <<PREFIX, <<"1", "0">>, <<"&", "a", "V", "I", "P">>>>,
               <<PREFIX, <<"a">>, <<"b">>, <<"c">>>> }

\* (name, permission) rows of the group_permissions table.
GroupPermissionRows == {<<groupName, split>> : groupName \in DbRankNames, split \in EnrichNodes}

\* ------------------------------------------------------------------------
\* HandleStaff
\* ------------------------------------------------------------------------

StaffInit ==
    /\ ctx = "live"
    /\ resultCh = <<>>
    /\ resultLog = <<>>
    /\ hpc = "select"
    /\ hres = NoCase
    /\ w = <<>>
    /\ gpc = "start"
    /\ collectedRanks = EmptyMap
    /\ gErr = ""
    /\ eRead = 0
    /\ primaryGroupsScanned = <<>>
    /\ userPermissionsScanned = <<>>
    /\ apc = "unborn"
    /\ aCollected = EmptyMap
    /\ aErr = ""
    /\ aRead = 0
    /\ bpc = "unborn"
    /\ bCollected = EmptyMap
    /\ bErr = ""
    /\ bRead = 0
    /\ qlog = [q \in {"A", "B", "E"} |-> <<>>]
    /\ primaryGroup = ""
    /\ permissionNode = <<"">>
    /\ aRowsErr = ""
    /\ bRowsErr = ""

\* No staff request: the state of the staff variables while a votes request runs.
StaffIdle ==
    /\ ctx = "live"
    /\ resultCh = <<>>
    /\ resultLog = <<>>
    /\ hpc = "idle"
    /\ hres = NoCase
    /\ w = <<>>
    /\ gpc = "idle"
    /\ collectedRanks = EmptyMap
    /\ gErr = ""
    /\ eRead = 0
    /\ primaryGroupsScanned = <<>>
    /\ userPermissionsScanned = <<>>
    /\ apc = "idle"
    /\ aCollected = EmptyMap
    /\ aErr = ""
    /\ aRead = 0
    /\ bpc = "idle"
    /\ bCollected = EmptyMap
    /\ bErr = ""
    /\ bRead = 0
    /\ qlog = [q \in {"A", "B", "E"} |-> <<>>]
    /\ primaryGroup = ""
    /\ permissionNode = <<"">>
    /\ aRowsErr = ""
    /\ bRowsErr = ""

\* The timer of context.WithTimeout fires.
DeadlineFires ==
    /\ hpc # "idle"
    /\ ctx = "live"
    /\ ctx' = "deadline"
    /\ UNCHANGED <<resultCh, resultLog, hpc, hres, w, gpc, collectedRanks, gErr, eRead,
                   primaryGroupsScanned, userPermissionsScanned, apc, aCollected, aErr,
                   aRead, bpc, bCollected, bErr, bRead, qlog, primaryGroup, permissionNode,
                   aRowsErr, bRowsErr>>
    /\ UNCHANGED <<votesVars, playerVars, enrichVars, other, mergeVars>>

\* select { case result := <-resultCh: ... case <-ctx.Done(): ... }
\* One of the cases that can proceed is taken; with none the handler waits.
HandlerSelect ==
    /\ hpc = "select"
    /\ \E c \in ReadyCases(resultCh, ctx) :
        /\ hres' = c
        /\ resultCh' = IF c.case = "result" THEN Tail(resultCh) ELSE resultCh
    /\ hpc' = "chosen"
    /\ UNCHANGED <<ctx, resultLog, w, gpc, collectedRanks, gErr, eRead,
                   primaryGroupsScanned, userPermissionsScanned, apc, aCollected, aErr,
                   aRead, bpc, bCollected, bErr, bRead, qlog, primaryGroup, permissionNode,
                   aRowsErr, bRowsErr>>
    /\ UNCHANGED <<votesVars, playerVars, enrichVars, other, mergeVars>>

\* The body of the case taken, then the return with its deferred cancel().
HandlerRespondAgain ==
    /\ hpc = "chosen"
    /\ Len(w) < 2
    /\ w' = Append(w, StaffResponse(hres))
    /\ ctx' = Cancelled(ctx, "canceled")
    /\ hpc' = "select"
    /\ UNCHANGED <<resultCh, resultLog, hres, gpc, collectedRanks, gErr, eRead,
                   primaryGroupsScanned, userPermissionsScanned, apc, aCollected, aErr,
                   aRead, bpc, bCollected, bErr, bRead, qlog, primaryGroup, permissionNode,
                   aRowsErr, bRowsErr>>
    /\ UNCHANGED <<votesVars, playerVars, enrichVars, other, mergeVars>>

HandlerRespond ==
    /\ hpc = "chosen"
    /\ w' = Append(w, StaffResponse(hres))
    /\ ctx' = Cancelled(ctx, "canceled")
    /\ hpc' = "done"
    /\ UNCHANGED <<resultCh, resultLog, hres, gpc, collectedRanks, gErr, eRead,
                   primaryGroupsScanned, userPermissionsScanned, apc, aCollected, aErr,
                   aRead, bpc, bCollected, bErr, bRead, qlog, primaryGroup, permissionNode,
                   aRowsErr, bRowsErr>>
    /\ UNCHANGED <<votesVars, playerVars, enrichVars, other, mergeVars>>

\* The coordinator starts: it makes its map and the two channels and starts
\* the two scans, then waits for the primary groups scan.
CoordinatorStart ==
    /\ gpc = "start"
    /\ gpc' = "waitA"
    /\ apc' = "query"
    /\ bpc' = "query"
    /\ UNCHANGED <<ctx, resultCh, resultLog, hpc, hres, w, collectedRanks, gErr, eRead,
                   primaryGroupsScanned, userPermissionsScanned, aCollected, aErr,
                   aRead, bCollected, bErr, bRead, qlog, primaryGroup, permissionNode,
                   aRowsErr, bRowsErr>>
    /\ UNCHANGED <<votesVars, playerVars, enrichVars, other, mergeVars>>


handlerVars == <<hpc, hres, w>>

coordinatorVars == <<gpc, collectedRanks, gErr, eRead>>

scanAVars == <<apc, aCollected, aErr, aRead, primaryGroup, aRowsErr>>

scanBVars == <<bpc, bCollected, bErr, bRead, permissionNode, bRowsErr>>

\* Scan A: e.db.QueryContext(ctx, ...) returns.  On an error the scan goes
\* on to send it on resultCh and sends nothing on primaryGroupsScanned.
ScanAQuerySwallow ==
    /\ apc = "query"
    /\ \E outcome \in QueryOutcomes(ctx) :
        /\ qlog' = Logged("A", outcome)
        /\ apc' = "rows"
        /\ aErr' = aErr
    /\ UNCHANGED <<ctx, resultCh, resultLog, handlerVars, coordinatorVars,
                   primaryGroupsScanned, userPermissionsScanned, aCollected, aRead,
                   scanBVars, primaryGroup, aRowsErr>>
    /\ UNCHANGED <<votesVars, playerVars, enrichVars, other, mergeVars>>

ScanAQuery ==
    /\ apc = "query"
    /\ \E outcome \in QueryOutcomes(ctx) :
        /\ qlog' = Logged("A", outcome)
        /\ apc' = IF outcome.ok THEN "rows" ELSE "sendErr"
        /\ aErr' = outcome.err
    /\ UNCHANGED <<ctx, resultCh, resultLog, handlerVars, coordinatorVars,
                   primaryGroupsScanned, userPermissionsScanned, aCollected, aRead,
                   scanBVars, primaryGroup, aRowsErr>>
    /\ UNCHANGED <<votesVars, playerVars, enrichVars, other, mergeVars>>

\* Scan A: resultCh <- err; return
ScanASendErr ==
    /\ apc = "sendErr"
    /\ Len(resultCh) < ResultChCap
    /\ resultCh' = Append(resultCh, ErrorValue(aErr))
    /\ resultLog' = LoggedSend("error")
    /\ apc' = "done"
    /\ UNCHANGED <<ctx, handlerVars, coordinatorVars, primaryGroupsScanned,
                   userPermissionsScanned, aCollected, aErr, aRead, scanBVars, qlog,
                   primaryGroup, aRowsErr>>
    /\ UNCHANGED <<votesVars, playerVars, enrichVars, other, mergeVars>>

\* The map collected after the row (username, primaryGroup) of Scan A.
ScanARowApplied(collected, username, group) ==
    IF IsChecked(group) THEN AppendMember(collected, group, username)
                        ELSE collected

\* Scan A: rows1.Next() is true and the loop body runs for one row; a row
\* that rows1.Scan cannot decode is skipped.
ScanARow ==
    /\ apc = "rows"
    /\ aRead < MaxPlayerRows
    /\ aRead' = aRead + 1
    /\ \/ \E row \in PlayerRows :
            /\ aCollected' = ScanARowApplied(aCollected, row[1], row[2])
            /\ primaryGroup' = row[2]
       \/ UNCHANGED <<aCollected, primaryGroup>>
    /\ UNCHANGED <<ctx, resultCh, resultLog, handlerVars, coordinatorVars,
                   primaryGroupsScanned, userPermissionsScanned, apc, aErr, aRowsErr,
                   scanBVars, qlog>>
    /\ UNCHANGED <<votesVars, playerVars, enrichVars, other, mergeVars>>

\* Scan A: rows1.Next() is false, at the end of the result or on an error;
\* the scan leaves the loop without a look at rows1.Err().
ScanARowsEnd ==
    /\ apc = "rows"
    /\ apc' = "deliver"
    /\ aRowsErr' \in RowsEndOutcomes(ctx)
    /\ UNCHANGED <<ctx, resultCh, resultLog, handlerVars, coordinatorVars,
                   primaryGroupsScanned, userPermissionsScanned, aCollected, aErr, aRead,
                   primaryGroup, scanBVars, qlog>>
    /\ UNCHANGED <<votesVars, playerVars, enrichVars, other, mergeVars>>

\* Scan A: primaryGroupsScanned <- collected, and the goroutine returns: its
\* local variables are gone.
ScanADeliverEarly ==
    /\ apc = "rows"
    /\ Len(primaryGroupsScanned) < ScanChCap
    /\ primaryGroupsScanned' = Append(primaryGroupsScanned, aCollected)
    /\ UNCHANGED <<ctx, resultCh, resultLog, handlerVars, coordinatorVars,
                   userPermissionsScanned, scanAVars, scanBVars, qlog>>
    /\ UNCHANGED <<votesVars, playerVars, enrichVars, other, mergeVars>>

ScanADeliver ==
    /\ apc = "deliver"
    /\ Len(primaryGroupsScanned) < ScanChCap
    /\ primaryGroupsScanned' = Append(primaryGroupsScanned, aCollected)
    /\ apc' = "done"
    /\ aCollected' = EmptyMap
    /\ aRead' = 0
    /\ primaryGroup' = ""
    /\ aRowsErr' = ""
    /\ UNCHANGED <<ctx, resultCh, resultLog, handlerVars, coordinatorVars,
                   userPermissionsScanned, aErr, scanBVars, qlog>>
    /\ UNCHANGED <<votesVars, playerVars, enrichVars, other, mergeVars>>

\* Scan B: e.db.QueryContext(ctx, ...) returns.
ScanBQuery ==
    /\ bpc = "query"
    /\ \E outcome \in QueryOutcomes(ctx) :
        /\ qlog' = Logged("B", outcome)
        /\ bpc' = IF outcome.ok THEN "rows" ELSE "sendErr"
        /\ bErr' = outcome.err
    /\ UNCHANGED <<ctx, resultCh, resultLog, handlerVars, coordinatorVars,
                   primaryGroupsScanned, userPermissionsScanned, scanAVars, bCollected,
                   bRead, permissionNode, bRowsErr>>
    /\ UNCHANGED <<votesVars, playerVars, enrichVars, other, mergeVars>>

\* Scan B: resultCh <- err; return
ScanBSendErr ==
    /\ bpc = "sendErr"
    /\ Len(resultCh) < ResultChCap
    /\ resultCh' = Append(resultCh, ErrorValue(bErr))
    /\ resultLog' = LoggedSend("error")
    /\ bpc' = "done"
    /\ UNCHANGED <<ctx, handlerVars, coordinatorVars, primaryGroupsScanned,
                   userPermissionsScanned, scanAVars, bCollected, bErr, bRead, qlog,
                   permissionNode, bRowsErr>>
    /\ UNCHANGED <<votesVars, playerVars, enrichVars, other, mergeVars>>

\* A loop body that takes the second segment of every node that has one.
ScanBRowAppliedLoose(collected, split, username) ==
    IF Len(split) < 2 THEN collected
    ELSE IF IsChecked(split[2]) THEN AppendMember(collected, split[2], username)
    ELSE collected

\* The map collected after the row (permissionNode, username) of Scan B,
\* split being strings.Split(permissionNode, ".").
ScanBRowApplied(collected, split, username) ==
    IF Len(split) # 2 THEN collected
    ELSE IF IsChecked(split[2]) THEN AppendMember(collected, split[2], username)
    ELSE collected

\* Scan B: rows2.Next() is true and the loop body runs for one row.
ScanBRow ==
    /\ bpc = "rows"
    /\ bRead < MaxPermissionRows
    /\ bRead' = bRead + 1
    /\ \/ \E row \in UserPermissionRows :
            /\ bCollected' = ScanBRowApplied(bCollected, row[1], row[2])
            /\ permissionNode' = row[1]
       \/ UNCHANGED <<bCollected, permissionNode>>
    /\ UNCHANGED <<ctx, resultCh, resultLog, handlerVars, coordinatorVars,
                   primaryGroupsScanned, userPermissionsScanned, scanAVars, bpc, bErr,
                   bRowsErr, qlog>>
    /\ UNCHANGED <<votesVars, playerVars, enrichVars, other, mergeVars>>

\* Scan B: rows2.Next() is false, at the end of the result or on an error;
\* the scan leaves the loop without a look at rows2.Err().
ScanBRowsEnd ==
    /\ bpc = "rows"
    /\ bpc' = "deliver"
    /\ bRowsErr' \in RowsEndOutcomes(ctx)
    /\ UNCHANGED <<ctx, resultCh, resultLog, handlerVars, coordinatorVars,
                   primaryGroupsScanned, userPermissionsScanned, scanAVars, bCollected,
                   bErr, bRead, permissionNode, qlog>>
    /\ UNCHANGED <<votesVars, playerVars, enrichVars, other, mergeVars>>

\* Scan B: userPermissionsScanned <- collected, and the goroutine returns:
\* its local variables are gone.
ScanBDeliver ==
    /\ bpc = "deliver"
    /\ Len(userPermissionsScanned) < ScanChCap
    /\ userPermissionsScanned' = Append(userPermissionsScanned, bCollected)
    /\ bpc' = "done"
    /\ bCollected' = EmptyMap
    /\ bRead' = 0
    /\ permissionNode' = <<"">>
    /\ bRowsErr' = ""
    /\ UNCHANGED <<ctx, resultCh, resultLog, handlerVars, coordinatorVars,
                   primaryGroupsScanned, scanAVars, bErr, qlog>>
    /\ UNCHANGED <<votesVars, playerVars, enrichVars, other, mergeVars>>

\* The coordinator: s := <-primaryGroupsScanned, copied into collectedRanks.
CoordinatorRecvANoWait ==
    /\ gpc = "waitA"
    /\ collectedRanks' = IF Len(primaryGroupsScanned) > 0
                             THEN CopyInto(collectedRanks, Head(primaryGroupsScanned))
                             ELSE collectedRanks
    /\ primaryGroupsScanned' = IF Len(primaryGroupsScanned) > 0
                                   THEN Tail(primaryGroupsScanned)
                                   ELSE primaryGroupsScanned
    /\ gpc' = "waitB"
    /\ UNCHANGED <<ctx, resultCh, resultLog, handlerVars, gErr, eRead,
                   userPermissionsScanned, scanAVars, scanBVars, qlog>>
    /\ UNCHANGED <<votesVars, playerVars, enrichVars, other, mergeVars>>

CoordinatorRecvA ==
    /\ gpc = "waitA"
    /\ Len(primaryGroupsScanned) > 0
    /\ collectedRanks' = CopyInto(collectedRanks, Head(primaryGroupsScanned))
    /\ primaryGroupsScanned' = Tail(primaryGroupsScanned)
    /\ gpc' = "waitB"
    /\ UNCHANGED <<ctx, resultCh, resultLog, handlerVars, gErr, eRead,
                   userPermissionsScanned, scanAVars, scanBVars, qlog>>
    /\ UNCHANGED <<votesVars, playerVars, enrichVars, other, mergeVars>>

\* The coordinator: s := <-userPermissionsScanned, merged into collectedRanks;
\* then the members of every rank are sorted and the name filter is built.
CoordinatorRecvB ==
    /\ gpc = "waitB"
    /\ Len(userPermissionsScanned) > 0
    /\ collectedRanks' = SortAll(MergeInto(collectedRanks, Head(userPermissionsScanned)))
    /\ userPermissionsScanned' = Tail(userPermissionsScanned)
    /\ gpc' = "query"
    /\ UNCHANGED <<ctx, resultCh, resultLog, handlerVars, gErr, eRead,
                   primaryGroupsScanned, scanAVars, scanBVars, qlog>>
    /\ UNCHANGED <<votesVars, playerVars, enrichVars, other, mergeVars>>

\* The coordinator: the name filter is cut out of groupNamesQuery and
\* e.db.QueryContext(ctx, ...) of the enrichment returns; a slice out of range
\* is a panic nothing recovers.
CoordinatorQuery ==
    /\ gpc = "query"
    /\ \E filter \in NameFilters(collectedRanks) :
        IF ~filter.ok
            THEN /\ gpc' = "fault"
                 /\ UNCHANGED <<qlog, gErr>>
            ELSE \E outcome \in QueryOutcomes(ctx) :
                    /\ qlog' = Logged("E", outcome)
                    /\ gpc' = IF outcome.ok THEN "rows" ELSE "sendErr"
                    /\ gErr' = outcome.err
    /\ UNCHANGED <<ctx, resultCh, resultLog, handlerVars, collectedRanks, eRead,
                   primaryGroupsScanned, userPermissionsScanned, scanAVars, scanBVars>>
    /\ UNCHANGED <<votesVars, playerVars, enrichVars, other, mergeVars>>

\* The coordinator: rows3.Next() is true and the loop body runs for one row.
CoordinatorRow ==
    /\ gpc = "rows"
    /\ eRead < MaxEnrichRows
    /\ eRead' = eRead + 1
    /\ \/ \E row \in GroupPermissionRows :
            IF EnrichRowFaults(row[2])
                THEN /\ gpc' = "fault"
                     /\ collectedRanks' = collectedRanks
                ELSE /\ gpc' = gpc
                     /\ collectedRanks' = ApplyEnrichRow(collectedRanks, row[1], row[2])
       \/ /\ gpc' = gpc
          /\ collectedRanks' = collectedRanks
    /\ UNCHANGED <<ctx, resultCh, resultLog, handlerVars, gErr,
                   primaryGroupsScanned, userPermissionsScanned, scanAVars, scanBVars,
                   qlog>>
    /\ UNCHANGED <<votesVars, playerVars, enrichVars, other, mergeVars>>

\* The coordinator: rows3.Next() is false; it goes on to send collectedRanks.
CoordinatorRowsEnd ==
    /\ gpc = "rows"
    /\ gpc' = "sendMap"
    /\ UNCHANGED <<ctx, resultCh, resultLog, handlerVars, collectedRanks, gErr, eRead,
                   primaryGroupsScanned, userPermissionsScanned, scanAVars, scanBVars,
                   qlog>>
    /\ UNCHANGED <<votesVars, playerVars, enrichVars, other, mergeVars>>

\* A coordinator that sends collectedRanks and goes back to its loop.
CoordinatorSendThenLoop ==
    /\ gpc \in {"sendErr", "sendMap"}
    /\ Len(resultCh) < ResultChCap
    /\ resultCh' = Append(resultCh, IF gpc = "sendErr" THEN ErrorValue(gErr)
                                                       ELSE MapValue(collectedRanks))
    /\ resultLog' = LoggedSend(IF gpc = "sendErr" THEN "error" ELSE "map")
    /\ gpc' = IF gpc = "sendErr" THEN "done" ELSE "rows"
    /\ UNCHANGED <<ctx, handlerVars, collectedRanks, gErr, eRead,
                   primaryGroupsScanned, userPermissionsScanned, scanAVars, scanBVars,
                   qlog>>
    /\ UNCHANGED <<votesVars, playerVars, enrichVars, other, mergeVars>>

\* The coordinator: resultCh <- err, or resultCh <- collectedRanks.
CoordinatorSend ==
    /\ gpc \in {"sendErr", "sendMap"}
    /\ Len(resultCh) < ResultChCap
    /\ resultCh' = Append(resultCh, IF gpc = "sendErr" THEN ErrorValue(gErr)
                                                       ELSE MapValue(collectedRanks))
    /\ resultLog' = LoggedSend(IF gpc = "sendErr" THEN "error" ELSE "map")
    /\ gpc' = "done"
    /\ UNCHANGED <<ctx, handlerVars, collectedRanks, gErr, eRead,
                   primaryGroupsScanned, userPermissionsScanned, scanAVars, scanBVars,
                   qlog>>
    /\ UNCHANGED <<votesVars, playerVars, enrichVars, other, mergeVars>>

StaffNext ==
    \/ DeadlineFires
    \/ HandlerSelect
    \/ HandlerRespond
    \/ CoordinatorStart
    \/ ScanAQuery
    \/ ScanASendErr
    \/ ScanARow
    \/ ScanARowsEnd
    \/ ScanADeliver
    \/ ScanBQuery
    \/ ScanBSendErr
    \/ ScanBRow
    \/ ScanBRowsEnd
    \/ ScanBDeliver
    \/ CoordinatorRecvA
    \/ CoordinatorRecvB
    \/ CoordinatorQuery
    \/ CoordinatorRow
    \/ CoordinatorRowsEnd
    \/ CoordinatorSend


\* ------------------------------------------------------------------------
\* Two staff requests in flight
\* ------------------------------------------------------------------------

\* No second request.
NoRequest == <<>>

\* The state of the invocation of HandleStaff that is running: its context,
\* its channels, its maps and the locals of its goroutines.
Request ==
    [ctx |-> ctx,
     resultCh |-> resultCh,
     resultLog |-> resultLog,
     hpc |-> hpc,
     hres |-> hres,
     w |-> w,
     gpc |-> gpc,
     collectedRanks |-> collectedRanks,
     gErr |-> gErr,
     eRead |-> eRead,
     primaryGroupsScanned |-> primaryGroupsScanned,
     userPermissionsScanned |-> userPermissionsScanned,
     apc |-> apc,
     aCollected |-> aCollected,
     aErr |-> aErr,
     aRead |-> aRead,
     primaryGroup |-> primaryGroup,
     aRowsErr |-> aRowsErr,
     bpc |-> bpc,
     bCollected |-> bCollected,
     bErr |-> bErr,
     bRead |-> bRead,
     permissionNode |-> permissionNode,
     bRowsErr |-> bRowsErr,
     qlog |-> qlog]

\* Two invocations whose goroutines all send on one resultCh.
SwitchSharedResultCh ==
    /\ other # NoRequest
    /\ ctx' = other.ctx
    /\ resultCh' = resultCh
    /\ resultLog' = other.resultLog
    /\ hpc' = other.hpc
    /\ hres' = other.hres
    /\ w' = other.w
    /\ gpc' = other.gpc
    /\ collectedRanks' = other.collectedRanks
    /\ gErr' = other.gErr
    /\ eRead' = other.eRead
    /\ primaryGroupsScanned' = other.primaryGroupsScanned
    /\ userPermissionsScanned' = other.userPermissionsScanned
    /\ apc' = other.apc
    /\ aCollected' = other.aCollected
    /\ aErr' = other.aErr
    /\ aRead' = other.aRead
    /\ primaryGroup' = other.primaryGroup
    /\ aRowsErr' = other.aRowsErr
    /\ bpc' = other.bpc
    /\ bCollected' = other.bCollected
    /\ bErr' = other.bErr
    /\ bRead' = other.bRead
    /\ permissionNode' = other.permissionNode
    /\ bRowsErr' = other.bRowsErr
    /\ qlog' = other.qlog
    /\ other' = Request
    /\ UNCHANGED <<votesVars, playerVars, enrichVars, mergeVars>>

\* The scheduler goes from the goroutines of one invocation of HandleStaff
\* to those of the other; each invocation finds its own state as it left it.
Switch ==
    /\ other # NoRequest
    /\ ctx' = other.ctx
    /\ resultCh' = other.resultCh
    /\ resultLog' = other.resultLog
    /\ hpc' = other.hpc
    /\ hres' = other.hres
    /\ w' = other.w
    /\ gpc' = other.gpc
    /\ collectedRanks' = other.collectedRanks
    /\ gErr' = other.gErr
    /\ eRead' = other.eRead
    /\ primaryGroupsScanned' = other.primaryGroupsScanned
    /\ userPermissionsScanned' = other.userPermissionsScanned
    /\ apc' = other.apc
    /\ aCollected' = other.aCollected
    /\ aErr' = other.aErr
    /\ aRead' = other.aRead
    /\ primaryGroup' = other.primaryGroup
    /\ aRowsErr' = other.aRowsErr
    /\ bpc' = other.bpc
    /\ bCollected' = other.bCollected
    /\ bErr' = other.bErr
    /\ bRead' = other.bRead
    /\ permissionNode' = other.permissionNode
    /\ bRowsErr' = other.bRowsErr
    /\ qlog' = other.qlog
    /\ other' = Request
    /\ UNCHANGED <<votesVars, playerVars, enrichVars, mergeVars>>


\* ------------------------------------------------------------------------
\* The waits, the merge and the sort of HandleStaff on their own
\* ------------------------------------------------------------------------

\* The member lists a scan may collect for a rank.
RECURSIVE MemberListsOfLen(_)
MemberListsOfLen(n) ==
    IF n = 0 THEN {<<>>}
    ELSE {Append(s, name) : s \in MemberListsOfLen(n - 1), name \in Usernames}

MemberLists == UNION {MemberListsOfLen(n) : n \in 1..MaxMembers}

\* The mappings a scan may deliver: its ranks are allow-listed and each has
\* the members appended to it, in row order.
ScanMappings ==
    UNION {[ranks -> {[GroupInfoZero EXCEPT !.Members = members] : members \in MemberLists}] :
            ranks \in SUBSET checkedRankNames}

\* No merge on its own.
MergeIdle ==
    /\ mergePc = "idle"
    /\ scanned = EmptyMap
    /\ arrived = <<>>
    /\ mergeRanks = EmptyMap
    /\ mergeTodo = {}

\* collectedRanks := map[string]*GroupInfo{}, the scans started.
MergeInit ==
    /\ mergePc = "wait1"
    /\ scanned \in [{"A", "B"} -> ScanMappings]
    /\ arrived = <<>>
    /\ mergeRanks = EmptyMap
    /\ mergeTodo = {}

\* A scan sends its mapping on its conduit; either scan may be the first.
MergeScanDelivers ==
    /\ mergePc # "idle"
    /\ \E id \in {"A", "B"} \ Range(arrived) : arrived' = Append(arrived, id)
    /\ UNCHANGED <<mergePc, scanned, mergeRanks, mergeTodo>>
    /\ UNCHANGED <<staffVars, votesVars, playerVars, enrichVars, other>>

\* A coordinator that takes the mappings in the order the scans delivered.
ReceiveOrderAsArrived(order) ==
    IF Len(order) = 0 THEN <<"A", "B">>
    ELSE IF Len(order) = 1 THEN order \o (IF order[1] = "A" THEN <<"B">> ELSE <<"A">>)
    ELSE order

\* The coordinator receives from primaryGroupsScanned, then from
\* userPermissionsScanned, whatever the order the scans delivered in.
ReceiveOrder(order) == <<"A", "B">>

\* s := <-primaryGroupsScanned
MergeRecvFirst ==
    /\ mergePc = "wait1"
    /\ ReceiveOrder(arrived)[1] \in Range(arrived)
    /\ mergePc' = "copy"
    /\ mergeTodo' = DOMAIN scanned[ReceiveOrder(arrived)[1]]
    /\ UNCHANGED <<scanned, arrived, mergeRanks>>
    /\ UNCHANGED <<staffVars, votesVars, playerVars, enrichVars, other>>

\* for k, v := range s { collectedRanks[k] = v }: one key, in any order.
MergeCopyKey ==
    /\ mergePc = "copy"
    /\ \E k \in mergeTodo :
        /\ mergeRanks' = [r \in (DOMAIN mergeRanks) \cup {k} |->
                            IF r = k THEN scanned[ReceiveOrder(arrived)[1]][k]
                                     ELSE mergeRanks[r]]
        /\ mergeTodo' = mergeTodo \ {k}
    /\ UNCHANGED <<mergePc, scanned, arrived>>
    /\ UNCHANGED <<staffVars, votesVars, playerVars, enrichVars, other>>

\* The range loop over s has visited every key.
MergeCopyEnd ==
    /\ mergePc = "copy"
    /\ mergeTodo = {}
    /\ mergePc' = "wait2"
    /\ UNCHANGED <<scanned, arrived, mergeRanks, mergeTodo>>
    /\ UNCHANGED <<staffVars, votesVars, playerVars, enrichVars, other>>

\* s := <-userPermissionsScanned
MergeRecvSecond ==
    /\ mergePc = "wait2"
    /\ ReceiveOrder(arrived)[2] \in Range(arrived)
    /\ mergePc' = "merge"
    /\ mergeTodo' = DOMAIN scanned[ReceiveOrder(arrived)[2]]
    /\ UNCHANGED <<scanned, arrived, mergeRanks>>
    /\ UNCHANGED <<staffVars, votesVars, playerVars, enrichVars, other>>

\* The body of the merge loop for the rank rankName of the mapping s.
MergeOneRank(collected, s, rankName) ==
    IF rankName \in DOMAIN collected
        THEN [collected EXCEPT ![rankName].Members = MergeMembers(@, s[rankName].Members)]
        ELSE [r \in (DOMAIN collected) \cup {rankName} |->
                IF r = rankName THEN s[rankName] ELSE collected[r]]

\* for rankName, collectedRank := range s { ... }: one rank, in any order.
MergeRank ==
    /\ mergePc = "merge"
    /\ \E rankName \in mergeTodo :
        /\ mergeRanks' = MergeOneRank(mergeRanks, scanned[ReceiveOrder(arrived)[2]], rankName)
        /\ mergeTodo' = mergeTodo \ {rankName}
    /\ UNCHANGED <<mergePc, scanned, arrived>>
    /\ UNCHANGED <<staffVars, votesVars, playerVars, enrichVars, other>>

\* The merge loop has visited every rank; the sort loop starts.
MergeEnd ==
    /\ mergePc = "merge"
    /\ mergeTodo = {}
    /\ mergePc' = "sort"
    /\ mergeTodo' = DOMAIN mergeRanks
    /\ UNCHANGED <<scanned, arrived, mergeRanks>>
    /\ UNCHANGED <<staffVars, votesVars, playerVars, enrichVars, other>>

\* for _, rank := range collectedRanks { sort.Strings(rank.Members) }: one
\* rank, in any order.
MergeSortRank ==
    /\ mergePc = "sort"
    /\ \E rank \in mergeTodo :
        /\ mergeRanks' = [mergeRanks EXCEPT ![rank].Members = SortStrings(@)]
        /\ mergeTodo' = mergeTodo \ {rank}
    /\ UNCHANGED <<mergePc, scanned, arrived>>
    /\ UNCHANGED <<staffVars, votesVars, playerVars, enrichVars, other>>

\* The sort loop has visited every rank.
MergeSortEnd ==
    /\ mergePc = "sort"
    /\ mergeTodo = {}
    /\ mergePc' = "done"
    /\ UNCHANGED <<scanned, arrived, mergeRanks, mergeTodo>>
    /\ UNCHANGED <<staffVars, votesVars, playerVars, enrichVars, other>>

MergeNext ==
    \/ MergeScanDelivers
    \/ MergeRecvFirst
    \/ MergeCopyKey
    \/ MergeCopyEnd
    \/ MergeRecvSecond
    \/ MergeRank
    \/ MergeEnd
    \/ MergeSortRank
    \/ MergeSortEnd


\* ------------------------------------------------------------------------
\* HandleVoters
\* ------------------------------------------------------------------------

\* Characters of the limit parameter.
LimitChars == {"0", "1", "-", "+", "a"}

\* Every string over LimitChars of length n.
RECURSIVE StringsOfLen(_)
StringsOfLen(n) ==
    IF n = 0 THEN {<<>>}
    ELSE {Append(s, c) : s \in StringsOfLen(n - 1), c \in LimitChars}

\* Values of r.URL.Query().Get("limit"); the empty string also stands for an
\* absent parameter.
LimitStrings == UNION {StringsOfLen(n) : n \in 0..MaxLimitLen}

\* Vote counts of the rows of the votes table.
VoteCounts == {1, 2, 3}

InvalidLimitPrefix == <<"i", "n", "v", "a", "l", "i", "d", " ", "l", "i", "m", "i", "t", ":", " ">>

\* fmt.Sprintf("invalid limit: %s", limitStr)
InvalidLimitBody(str) == [type |-> "chars", chars |-> InvalidLimitPrefix \o str]

VotersBody(list) == [type |-> "voters", voters |-> list]

\* err == nil && num > 0
LimitAcceptedZero(parsed) == parsed.ok /\ parsed.num >= 0

LimitAccepted(parsed) == parsed.ok /\ parsed.num > 0

\* The body of the select case taken in HandleVoters.
VotersResponse(res) ==
    IF res.case = "result"
        THEN IF res.value.kind = "error"
                THEN writeResponse(StatusInternalServerError, StringBody("database access error"))
                ELSE writeResponse(StatusOK, VotersBody(res.value.voters))
        ELSE writeResponse(StatusInternalServerError, StringBody("timed out"))

VotesInit ==
    /\ limitStr \in LimitStrings
    /\ vpc = "parse"
    /\ votersLimit = NoLimit
    /\ vctx = "none"
    /\ vResultCh = <<>>
    /\ vres = NoCase
    /\ vw = <<>>
    /\ wpc = "unborn"
    /\ voters = <<>>
    /\ vErr = ""
    /\ vRead = 0
    /\ vLast = 0

\* No votes request: the state of the votes variables while a staff request runs.
VotesIdle ==
    /\ limitStr = <<>>
    /\ vpc = "idle"
    /\ votersLimit = NoLimit
    /\ vctx = "none"
    /\ vResultCh = <<>>
    /\ vres = NoCase
    /\ vw = <<>>
    /\ wpc = "idle"
    /\ voters = <<>>
    /\ vErr = ""
    /\ vRead = 0
    /\ vLast = 0

\* A handler that makes the context and starts the worker before it parses
\* the limit.
VotersParseLate ==
    /\ vpc = "parse"
    /\ vctx' = "live"
    /\ wpc' = "query"
    /\ IF limitStr # <<>> /\ ~LimitAccepted(Atoi(limitStr))
          THEN /\ vw' = Append(vw, writeResponse(StatusBadRequest, InvalidLimitBody(limitStr)))
               /\ vpc' = "done"
               /\ UNCHANGED votersLimit
          ELSE /\ votersLimit' = IF limitStr # <<>> THEN Atoi(limitStr).num ELSE NoLimit
               /\ vpc' = "select"
               /\ vw' = vw
    /\ UNCHANGED <<limitStr, vResultCh, vres, voters, vErr, vRead, vLast>>
    /\ UNCHANGED <<staffVars, playerVars, enrichVars, other, mergeVars>>

\* HandleVoters up to its select: the limit is parsed; an invalid limit is
\* answered with 400 and the handler returns; otherwise the context and
\* the channel are made and the worker is started.
VotersParse ==
    /\ vpc = "parse"
    /\ IF limitStr # <<>> /\ ~LimitAccepted(Atoi(limitStr))
          THEN /\ vw' = Append(vw, writeResponse(StatusBadRequest, InvalidLimitBody(limitStr)))
               /\ vpc' = "done"
               /\ UNCHANGED <<votersLimit, vctx, wpc>>
          ELSE /\ votersLimit' = IF limitStr # <<>> THEN Atoi(limitStr).num ELSE NoLimit
               /\ vctx' = "live"
               /\ wpc' = "query"
               /\ vpc' = "select"
               /\ vw' = vw
    /\ UNCHANGED <<limitStr, vResultCh, vres, voters, vErr, vRead, vLast>>
    /\ UNCHANGED <<staffVars, playerVars, enrichVars, other, mergeVars>>

\* The timer of context.WithTimeout fires.
VotersDeadlineFires ==
    /\ vctx = "live"
    /\ vctx' = "deadline"
    /\ UNCHANGED <<limitStr, vpc, votersLimit, vResultCh, vres, vw, wpc, voters, vErr,
                   vRead, vLast>>
    /\ UNCHANGED <<staffVars, playerVars, enrichVars, other, mergeVars>>

\* The worker: e.db.QueryContext(ctx, ...) returns.
VotersQuery ==
    /\ wpc = "query"
    /\ \E outcome \in QueryOutcomes(vctx) :
        /\ wpc' = IF outcome.ok THEN "rows" ELSE "sendErr"
        /\ vErr' = outcome.err
    /\ UNCHANGED <<limitStr, vpc, votersLimit, vctx, vResultCh, vres, vw, voters, vRead,
                   vLast>>
    /\ UNCHANGED <<staffVars, playerVars, enrichVars, other, mergeVars>>

\* The limit clause of the query, as the number of rows it allows:
\* "limit %d" of votersLimit, or no clause for votersLimit = -1.
QueryLimitNone(limit) == NoLimit

QueryLimit(limit) == IF limit # NoLimit THEN limit ELSE NoLimit

\* The worker: rows.Next() is true and the loop body runs for one row.  The
\* row source honours "order by votes desc" and the limit clause; a row
\* that rows.Scan cannot decode is skipped.
VotersRow ==
    /\ wpc = "rows"
    /\ vRead < MaxVoteRows
    /\ QueryLimit(votersLimit) = NoLimit \/ vRead < QueryLimit(votersLimit)
    /\ vRead' = vRead + 1
    /\ \E username \in Usernames, votes \in VoteCounts :
        /\ vLast = 0 \/ votes <= vLast
        /\ vLast' = votes
        /\ \/ voters' = Append(voters, [Username |-> username, Votes |-> votes, Timestamp |-> 0])
           \/ voters' = voters
    /\ UNCHANGED <<limitStr, vpc, votersLimit, vctx, vResultCh, vres, vw, wpc, vErr>>
    /\ UNCHANGED <<staffVars, playerVars, enrichVars, other, mergeVars>>

\* The worker: rows.Next() is false; it goes on to send voters.
VotersRowsEnd ==
    /\ wpc = "rows"
    /\ wpc' = "sendRows"
    /\ UNCHANGED <<limitStr, vpc, votersLimit, vctx, vResultCh, vres, vw, voters, vErr,
                   vRead, vLast>>
    /\ UNCHANGED <<staffVars, playerVars, enrichVars, other, mergeVars>>

\* A worker without the return after its error send: it goes on to send
\* voters as well.
VotersSendFallsThrough ==
    /\ wpc \in {"sendErr", "sendRows"}
    /\ Len(vResultCh) < ResultChCap
    /\ vResultCh' = Append(vResultCh, IF wpc = "sendErr"
                                         THEN ErrorValue(vErr)
                                         ELSE [kind |-> "voters", voters |-> voters])
    /\ wpc' = IF wpc = "sendErr" THEN "sendRows" ELSE "done"
    /\ UNCHANGED <<limitStr, vpc, votersLimit, vctx, vres, vw, voters, vErr, vRead, vLast>>
    /\ UNCHANGED <<staffVars, playerVars, enrichVars, other, mergeVars>>

\* The worker: resultCh <- err, or resultCh <- voters.
VotersSend ==
    /\ wpc \in {"sendErr", "sendRows"}
    /\ Len(vResultCh) < ResultChCap
    /\ vResultCh' = Append(vResultCh, IF wpc = "sendErr"
                                         THEN ErrorValue(vErr)
                                         ELSE [kind |-> "voters", voters |-> voters])
    /\ wpc' = "done"
    /\ UNCHANGED <<limitStr, vpc, votersLimit, vctx, vres, vw, voters, vErr, vRead, vLast>>
    /\ UNCHANGED <<staffVars, playerVars, enrichVars, other, mergeVars>>

\* select { case result := <-resultCh: ... case <-ctx.Done(): ... }
VotersSelect ==
    /\ vpc = "select"
    /\ \E c \in ReadyCases(vResultCh, vctx) :
        /\ vres' = c
        /\ vResultCh' = IF c.case = "result" THEN Tail(vResultCh) ELSE vResultCh
    /\ vpc' = "chosen"
    /\ UNCHANGED <<limitStr, votersLimit, vctx, vw, wpc, voters, vErr, vRead, vLast>>
    /\ UNCHANGED <<staffVars, playerVars, enrichVars, other, mergeVars>>

\* The body of the case taken, then the return with its deferred cancel().
VotersRespond ==
    /\ vpc = "chosen"
    /\ vw' = Append(vw, VotersResponse(vres))
    /\ vctx' = Cancelled(vctx, "canceled")
    /\ vpc' = "done"
    /\ UNCHANGED <<limitStr, votersLimit, vResultCh, vres, wpc, voters, vErr, vRead, vLast>>
    /\ UNCHANGED <<staffVars, playerVars, enrichVars, other, mergeVars>>

VotesNext ==
    \/ VotersParse
    \/ VotersDeadlineFires
    \/ VotersQuery
    \/ VotersRow
    \/ VotersRowsEnd
    \/ VotersSend
    \/ VotersSelect
    \/ VotersRespond

\* ------------------------------------------------------------------------
\* HandlePlayer
\* ------------------------------------------------------------------------

PlayerInit ==
    /\ ppc = "start"
    /\ pw = <<>>

\* No player request.
PlayerIdle ==
    /\ ppc = "idle"
    /\ pw = <<>>

\* writeResponse(w, http.StatusNotImplemented, "not done yet")
HandlePlayer ==
    /\ ppc = "start"
    /\ pw' = Append(pw, writeResponse(StatusNotImplemented, StringBody("not done yet")))
    /\ ppc' = "done"
    /\ UNCHANGED <<staffVars, votesVars, enrichVars, other, mergeVars>>

PlayerNext == HandlePlayer

\* ------------------------------------------------------------------------
\* The enrichment loop of HandleStaff on its own
\* ------------------------------------------------------------------------

\* collectedRanks as the merge and the sort leave it: members only.
EnrichStartMaps ==
    {[r \in ranks |-> [GroupInfoZero EXCEPT !.Members = UsernameOrder]] :
        ranks \in SUBSET checkedRankNames}

\* A weight value out of the range of int.
TwentyNines == [i \in 1..20 |-> "9"]

\* Permission nodes matching 'prefix.%' or 'weight.%', split at the dots:
\* those of EnrichNodes and more.
EnrichNodesAll ==
    EnrichNodes
        \cup { <<WEIGHT, TwentyNines>>, <<WEIGHT, <<"-", "7">>>>, <<WEIGHT, <<>>>>,
               <<WEIGHT, <<"1">>, <<"5">>>> }
        \cup { <<PREFIX, <<"&", "A", "&", "R", "x">>>>,
               <<PREFIX, <<"&", "l", "&", "9", "O", "p">>>>,
               <<PREFIX, <<"&", "g", "&">>>>,
               <<PREFIX, <<>>>> }

\* Names of the rows of the group_permissions table.
EnrichRankNames == {"mod", "admin", "guest"}

\* (name, permission) rows, and the row that rows3.Scan cannot decode.
EnrichRowsAll ==
    {<<groupName, split>> : groupName \in EnrichRankNames, split \in EnrichNodesAll}

Undecodable == <<"undecodable">>

EnrichInit ==
    /\ enrichPc = "rows"
    /\ enrichStart \in EnrichStartMaps
    /\ enrichRanks = enrichStart
    /\ enrichRows = <<>>

\* No enrichment loop on its own.
EnrichIdle ==
    /\ enrichPc = "idle"
    /\ enrichStart = EmptyMap
    /\ enrichRanks = EmptyMap
    /\ enrichRows = <<>>

\* rows3.Next() is true and the loop body runs for one row.
EnrichRow ==
    /\ enrichPc = "rows"
    /\ Len(enrichRows) < MaxEnrichRows
    /\ \/ \E row \in EnrichRowsAll :
            /\ enrichRows' = Append(enrichRows, row)
            /\ IF EnrichRowFaults(row[2])
                  THEN /\ enrichPc' = "fault"
                       /\ enrichRanks' = enrichRanks
                  ELSE /\ enrichPc' = enrichPc
                       /\ enrichRanks' = ApplyEnrichRow(enrichRanks, row[1], row[2])
       \/ /\ enrichRanks' = enrichRanks
          /\ enrichRows' = Append(enrichRows, Undecodable)
          /\ enrichPc' = enrichPc
    /\ UNCHANGED enrichStart
    /\ UNCHANGED <<staffVars, votesVars, playerVars, other, mergeVars>>

\* rows3.Next() is false: collectedRanks is what the coordinator sends.
EnrichRowsEnd ==
    /\ enrichPc = "rows"
    /\ enrichPc' = "end"
    /\ UNCHANGED <<enrichStart, enrichRanks, enrichRows>>
    /\ UNCHANGED <<staffVars, votesVars, playerVars, other, mergeVars>>

EnrichNext ==
    \/ EnrichRow
    \/ EnrichRowsEnd

\* ------------------------------------------------------------------------
\* Specifications
\* ------------------------------------------------------------------------

\* One staff request.
Init == StaffInit /\ VotesIdle /\ PlayerIdle /\ EnrichIdle /\ other = NoRequest /\ MergeIdle

Next == StaffNext

Spec == Init /\ [][Next]_vars

\* One staff request whose deadline timer fires unless cancelled, and whose
\* handler goroutine is scheduled; the queries may never return.
LiveSpec ==
    /\ Spec
    /\ WF_vars(DeadlineFires)
    /\ WF_vars(HandlerSelect)
    /\ WF_vars(HandlerRespond)

\* One votes request, for every value of the limit parameter.
VotesInitAll == VotesInit /\ StaffIdle /\ PlayerIdle /\ EnrichIdle /\ other = NoRequest /\ MergeIdle

VotesSpec == VotesInitAll /\ [][VotesNext]_vars

\* One votes request whose worker goroutine is scheduled once its query has
\* returned: the iteration over the finite result ends and a send that can
\* proceed does.  The query itself may never return.
VotesLiveSpec ==
    /\ VotesSpec
    /\ WF_vars(VotersRowsEnd)
    /\ WF_vars(VotersSend)

\* One request to any of the three endpoints.
ApiInit ==
    \/ Init
    \/ VotesInitAll
    \/ StaffIdle /\ VotesIdle /\ PlayerInit /\ EnrichIdle /\ other = NoRequest /\ MergeIdle

ApiNext ==
    \/ StaffNext
    \/ VotesNext
    \/ PlayerNext

ApiSpec == ApiInit /\ [][ApiNext]_vars

\* The enrichment loop over every sequence of rows, from every mapping.
EnrichInitAll == StaffIdle /\ VotesIdle /\ PlayerIdle /\ EnrichInit /\ other = NoRequest /\ MergeIdle

EnrichSpec == EnrichInitAll /\ [][EnrichNext]_vars

\* Two staff requests in flight at once, both from their start, their
\* goroutines interleaved in every order; the tables hold no rows.
TwoInit == StaffInit /\ VotesIdle /\ PlayerIdle /\ EnrichIdle /\ other = Request /\ MergeIdle

TwoNext ==
    \/ Switch
    \/ DeadlineFires
    \/ HandlerSelect
    \/ HandlerRespond
    \/ CoordinatorStart
    \/ ScanAQuery
    \/ ScanASendErr
    \/ ScanARowsEnd
    \/ ScanADeliver
    \/ ScanBQuery
    \/ ScanBSendErr
    \/ ScanBRowsEnd
    \/ ScanBDeliver
    \/ CoordinatorRecvA
    \/ CoordinatorRecvB
    \/ CoordinatorQuery
    \/ CoordinatorRowsEnd
    \/ CoordinatorSend

TwoSpec == TwoInit /\ [][TwoNext]_vars

\* The waits, the merge and the sort for every pair of mappings the scans
\* may deliver, in every order of delivery and of iteration over the maps.
MergeInitAll ==
    StaffIdle /\ VotesIdle /\ PlayerIdle /\ EnrichIdle /\ other = NoRequest /\ MergeInit

MergeSpec == MergeInitAll /\ [][MergeNext]_vars

\* ------------------------------------------------------------------------
\* Properties
\* ------------------------------------------------------------------------

TimedOutResponse == writeResponse(StatusInternalServerError, StringBody("timed out"))

DatabaseErrorResponse ==
    writeResponse(StatusInternalServerError, StringBody("database access error"))

\* The deadline elapsed and no value was placed on resultCh before it did.
DeadlineBeforeAnyValue ==
    /\ ctx = "deadline"
    /\ \A i \in 1..Len(resultLog) : resultLog[i].ctx # "live"

\* A value of the kind was placed on resultCh before the deadline elapsed.
PlacedBeforeDeadline(kind) ==
    \E i \in 1..Len(resultLog) : resultLog[i].kind = kind /\ resultLog[i].ctx = "live"

\* The handler's select runs in this step.
SelectRuns == hpc = "select" /\ hpc' = "chosen"

\* C1 as stated: if the deadline elapses before any value has been placed
\* on the result channel, the response is 500 "timed out", also when a
\* subtask places a value after the deadline and before the select runs.
C1_TimedOutWhateverFollows ==
    (DeadlineBeforeAnyValue /\ Len(w) > 0) => w[1] = TimedOutResponse

\* C1 as amended: if the deadline has elapsed and no value has been placed
\* on the result channel when the handler's select runs, the select takes
\* the deadline case, and the response of a select that took the deadline
\* case is 500 "timed out", whatever the subtasks place afterwards.
C1_TimedOutWhenSelectFindsNoValue ==
    /\ [][(SelectRuns /\ ctx = "deadline" /\ resultLog = <<>>) => hres'.case = "done"]_vars
    /\ []((hres.case = "done" /\ Len(w) > 0) => w[1] = TimedOutResponse)

\* The deadline elapsed first, a subtask placed a value after it, and the
\* response is "timed out".
C1_Witness ==
    /\ hpc = "done"
    /\ DeadlineBeforeAnyValue
    /\ Len(resultLog) > 0
    /\ w = <<TimedOutResponse>>

\* C2 as stated: if the result channel receives the mapping before the
\* deadline elapses, the response is 200, "ok", with that mapping.
C2_MappingBeforeDeadlineGives200 ==
    (PlacedBeforeDeadline("map") /\ Len(w) > 0)
        => w[1] = writeResponse(StatusOK, GroupsBody(collectedRanks))

\* C2 as amended: a select that runs before the deadline has elapsed takes
\* the value of the result channel, and when the select has taken the
\* mapping the response is 200 with envelope status "ok" and exactly the
\* coordinator's mapping as payload.
C2_MappingTakenGives200 ==
    /\ [][(SelectRuns /\ ctx = "live") => hres'.case = "result"]_vars
    /\ []((hres.case = "result" /\ hres.value.kind = "map" /\ Len(w) > 0)
            => /\ w[1].status = StatusOK
               /\ w[1].Status = okStatus
               /\ w[1].Data = GroupsBody(collectedRanks))

\* A 200 response with a rank in it, its mapping placed before the deadline.
C2_Witness ==
    /\ hpc = "done"
    /\ PlacedBeforeDeadline("map")
    /\ w[1].status = StatusOK
    /\ DOMAIN w[1].Data.groups # {}

\* C3 as stated: if a query's error reaches the result channel before the
\* deadline, the response is 500 with the data "database access error".
C3_ErrorBeforeDeadlineGivesDatabaseError ==
    (PlacedBeforeDeadline("error") /\ Len(w) > 0) => w[1] = DatabaseErrorResponse

\* C3 as amended: if a query's error reaches the result channel before the
\* deadline, the response is 500; its data is the constant "database
\* access error" when the select has taken the error, as it does when it
\* runs before the deadline has elapsed, and "timed out" otherwise; the
\* error's text is never the data.
C3_ErrorGives500WithFixedData ==
    /\ [][(SelectRuns /\ ctx = "live") => hres'.case = "result"]_vars
    /\ []((PlacedBeforeDeadline("error") /\ Len(w) > 0)
            => /\ w[1] \in {DatabaseErrorResponse, TimedOutResponse}
               /\ hres.case = "result" => w[1] = DatabaseErrorResponse
               /\ hres.case = "done" => w[1] = TimedOutResponse)

\* A database error was taken by the select and answered.
C3_Witness ==
    /\ hpc = "done"
    /\ PlacedBeforeDeadline("error")
    /\ hres.case = "result"
    /\ hres.value.text \in DbErrors
    /\ w = <<DatabaseErrorResponse>>

\* C4: a 200 response is written only if the three queries all succeeded;
\* when a scan's query failed no mapping is ever sent or answered, and no
\* query is run twice.
C4_OkOnlyIfAllQueriesSucceeded ==
    /\ \A q \in {"A", "B", "E"} : Len(qlog[q]) <= 1
    /\ \A i \in 1..Len(w) :
        w[i].status = StatusOK => \A q \in {"A", "B", "E"} : qlog[q] = <<"ok">>
    /\ (qlog["A"] = <<"err">> \/ qlog["B"] = <<"err">>)
        => /\ \A i \in 1..Len(w) : w[i].status # StatusOK
           /\ \A i \in 1..Len(resultLog) : resultLog[i].kind # "map"
           /\ gpc \notin {"sendMap"}

\* Scan A's query failed, Scan B delivered a mapping with a rank, and the
\* request was answered.
C4_Witness ==
    /\ qlog["A"] = <<"err">>
    /\ qlog["B"] = <<"ok">>
    /\ bpc = "done"
    /\ Len(userPermissionsScanned) = 1
    /\ DOMAIN userPermissionsScanned[1] # {}
    /\ hpc = "done"
    /\ w[1].status = StatusInternalServerError

\* The terminal states of the request.
Succeeded == hpc = "done" /\ Len(w) = 1 /\ w[1].status = StatusOK

Failed == hpc = "done" /\ w = <<DatabaseErrorResponse>>

TimedOut == hpc = "done" /\ w = <<TimedOutResponse>>

\* C5: every staff request eventually reaches Succeeded, Failed or
\* TimedOut, whatever the queries do, given that the deadline timer fires.
C5_EventuallyTerminal == <>(Succeeded \/ Failed \/ TimedOut)

\* The request timed out while neither scan's query had returned.
C5_Witness == TimedOut /\ apc = "query" /\ bpc = "query"

\* C6: at most one response is written, exactly one once the handler has
\* returned, and a written response never changes, also when a value
\* arrives on the result channel afterwards.
C6_OneResponse ==
    /\ [](Len(w) <= 1 /\ (hpc = "done" => Len(w) = 1))
    /\ [][Len(w) = 1 => w' = w]_vars

\* A value was sent on the result channel after the handler had returned.
C6_Witness ==
    /\ hpc = "done"
    /\ Len(w) = 1
    /\ \E i \in 1..Len(resultLog) : resultLog[i].ctx = "canceled"

\* No element twice in the sequence.
NoDuplicates(members) ==
    \A i, j \in 1..Len(members) : i # j => members[i] # members[j]

\* C7: in every 200 response no rank's member list has a username twice.
C7_NoMemberTwice ==
    \A i \in 1..Len(w) :
        w[i].status = StatusOK
            => \A r \in DOMAIN w[i].Data.groups : NoDuplicates(w[i].Data.groups[r].Members)

\* Ascending order, equal neighbours allowed.
IsSorted(members) ==
    \A i, j \in 1..Len(members) : i < j => ~StrLess(members[j], members[i])

\* C8: in every 200 response every rank's member list is in ascending order.
C8_MembersSorted ==
    \A i \in 1..Len(w) :
        w[i].status = StatusOK
            => \A r \in DOMAIN w[i].Data.groups : IsSorted(w[i].Data.groups[r].Members)

\* A 200 response with the two members alice and bob in a rank.
C8_Witness ==
    /\ Len(w) = 1
    /\ w[1].status = StatusOK
    /\ \E r \in DOMAIN w[1].Data.groups :
        w[1].Data.groups[r].Members = <<"alice", "bob">>

\* The maps buffered in a scan channel.
KeysIn(ch) == UNION {DOMAIN ch[i] : i \in 1..Len(ch)}

\* C9: every key of the scans' maps and of the collected map, at every
\* point, is a rank name of the allow-list.
C9_KeysAllowListed ==
    /\ DOMAIN aCollected \subseteq checkedRankNames
    /\ DOMAIN bCollected \subseteq checkedRankNames
    /\ DOMAIN collectedRanks \subseteq checkedRankNames
    /\ KeysIn(primaryGroupsScanned) \subseteq checkedRankNames
    /\ KeysIn(userPermissionsScanned) \subseteq checkedRankNames

\* Scan B has collected a member and then decoded a node naming a rank
\* outside the allow-list, while Scan A has decoded a row of such a rank.
C9_Witness ==
    /\ apc = "rows"
    /\ aRead > 0
    /\ primaryGroup \in DbRankNames \ checkedRankNames
    /\ bpc = "rows"
    /\ DOMAIN bCollected # {}
    /\ Len(permissionNode) = 2
    /\ permissionNode[2] \in DbRankNames \ checkedRankNames

\* The string is an optional sign followed by one or more decimal digits.
IsNumeral(str) ==
    /\ Len(str) >= 1
    /\ LET digits == IF str[1] \in {"+", "-"} THEN Tail(str) ELSE str
       IN /\ Len(digits) >= 1
          /\ \A i \in 1..Len(digits) : IsDigit(digits[i])

\* The numeral denotes zero or a negative integer.
IsNonPositive(str) ==
    /\ IsNumeral(str)
    /\ \/ str[1] = "-"
       \/ \A i \in 1..Len(str) : str[i] \in {"+", "0"}

InvalidLimitResponse(str) == writeResponse(StatusBadRequest, InvalidLimitBody(str))

\* C10 as stated: every limit string that is non-numeric or denotes a
\* non-positive integer is answered 400 with "invalid limit: " and the raw
\* string.
C10_EveryBadLimitRejected ==
    (vpc \notin {"idle", "parse"} /\ (~IsNumeral(limitStr) \/ IsNonPositive(limitStr)))
        => vpc = "done" /\ vw = <<InvalidLimitResponse(limitStr)>>

\* C10 as amended: every non-empty limit string that is non-numeric or
\* denotes a non-positive integer is answered 400 with "invalid limit: "
\* and the raw string; the empty string is taken as no limit.
C10_NonEmptyBadLimitRejected ==
    (vpc \notin {"idle", "parse"} /\ limitStr # <<>>
        /\ (~IsNumeral(limitStr) \/ IsNonPositive(limitStr)))
        => vpc = "done" /\ vw = <<InvalidLimitResponse(limitStr)>>

\* The limit "-1" was rejected.
C10_Witness ==
    /\ limitStr = <<"-", "1">>
    /\ vpc = "done"
    /\ vw = <<InvalidLimitResponse(<<"-", "1">>)>>



\* A response is the envelope {status, data} under an HTTP status, and its
\* status is "ok" exactly when the HTTP status is 200, else "error".
EnvelopeOk(r) ==
    /\ DOMAIN r = {"status", "Status", "Data"}
    /\ r.status \in {StatusOK, StatusBadRequest, StatusInternalServerError,
                     StatusNotImplemented}
    /\ r.Status = okStatus <=> r.status = StatusOK
    /\ r.Status = errorStatus <=> r.status # StatusOK

\* C11: every response of the staff, the votes and the player endpoint is
\* the envelope {status, data}, with status "ok" exactly when the HTTP
\* status is 200 and "error" for 400, 500 and 501.
C11_EnvelopeStatus ==
    /\ \A i \in 1..Len(w) : EnvelopeOk(w[i])
    /\ \A i \in 1..Len(vw) : EnvelopeOk(vw[i])
    /\ \A i \in 1..Len(pw) : EnvelopeOk(pw[i])

\* The player endpoint has answered 501 with status "error".
C11_Witness ==
    /\ ppc = "done"
    /\ Len(pw) = 1
    /\ pw[1].status = StatusNotImplemented
    /\ pw[1].Status = errorStatus

\* The row the enrichment loop has run for last.
LastEnrichRow == enrichRows[Len(enrichRows)]

\* The loop body runs for one more row in this step.
EnrichRowRuns == Len(enrichRows') = Len(enrichRows) + 1

\* A decoded row whose rank name is not a key of the mapping.
IsOrphanRow(row, ranks) == Len(row) = 2 /\ row[1] \notin DOMAIN ranks

\* C12: an enrichment row whose rank name is not a key of the collected
\* mapping adds no entry and changes no entry, so the ranks of the mapping
\* the coordinator sends are the ranks the scans collected.
C12_OrphanRowsIgnored ==
    /\ [][(EnrichRowRuns /\ IsOrphanRow(LastEnrichRow', enrichRanks))
            => enrichRanks' = enrichRanks]_vars
    /\ [](DOMAIN enrichRanks = DOMAIN enrichStart)

\* The loop has ended after a prefix row for a rank that is not in the
\* mapping and a row that changed a rank that is.
C12_Witness ==
    /\ enrichPc = "end"
    /\ enrichRanks # enrichStart
    /\ \E i \in 1..Len(enrichRows) :
        /\ IsOrphanRow(enrichRows[i], enrichStart)
        /\ enrichRows[i][2][1] = PREFIX

\* The rows of enrichRows that are prefix nodes of the rank.
PrefixRowsOf(rank) ==
    {i \in 1..Len(enrichRows) :
        /\ Len(enrichRows[i]) = 2
        /\ enrichRows[i][1] = rank
        /\ enrichRows[i][2][1] = PREFIX}

\* The color C13 states for a prefix literal: the hex value of the code of
\* its last color-code match, empty for a formatting code and for no match.
ClaimedColor(literal) ==
    LET colorMatches == FindAllString(literal)
    IN IF Len(colorMatches) = 0 THEN ""
       ELSE LET code == ToLowerChar(colorMatches[Len(colorMatches)][2])
            IN IF code \in DOMAIN chatColorsToHex THEN chatColorsToHex[code] ELSE ""

\* C13: for a rank with one prefix node, Color is the hex value of the
\* last color-code match of the prefix literal when its code is one of
\* 0-9, a-f in either case, and empty for a formatting code or no match.
C13_ColorOfLastMatch ==
    \A rank \in DOMAIN enrichRanks :
        \A i \in PrefixRowsOf(rank) :
            PrefixRowsOf(rank) = {i}
                => enrichRanks[rank].Color = ClaimedColor(PrefixLiteral(enrichRows[i][2]))

\* The rows of enrichRows that are weight nodes of the rank.
WeightRowsOf(rank) ==
    {i \in 1..Len(enrichRows) :
        /\ Len(enrichRows[i]) = 2
        /\ enrichRows[i][1] = rank
        /\ enrichRows[i][2][1] = WEIGHT}

\* The text is a decimal integer, with or without a sign, in the range of int.
IsIntegerText(s) ==
    LET digits == IF s # <<>> /\ s[1] \in {"-", "+"} THEN Tail(s) ELSE s
    IN /\ digits # <<>>
       /\ \A i \in 1..Len(digits) : IsDigit(digits[i])
       /\ InRange(digits, s[1] = "-")

\* The row is a weight node whose value is no such integer.
IsUnparsedWeight(row) ==
    /\ Len(row) = 2
    /\ row[2][1] = WEIGHT
    /\ ~IsIntegerText(row[2][2])

VotesDescending(list) ==
    \A i \in 1..(Len(list) - 1) : list[i].Votes >= list[i + 1].Votes

\* C15: with a valid limit n > 0, a 200 votes response has at most n
\* entries, in descending order of votes, the row source honouring the
\* ORDER BY and the LIMIT of the query; rows that fail to decode only
\* reduce the count.
C15_AtMostLimitDescending ==
    \A i \in 1..Len(vw) :
        vw[i].status = StatusOK
            => /\ votersLimit # NoLimit
                    => votersLimit > 0 /\ Len(vw[i].Data.voters) <= votersLimit
               /\ Len(vw[i].Data.voters) <= vRead
               /\ VotesDescending(vw[i].Data.voters)

\* A 200 response to limit=1 with one entry.
C15_Witness ==
    /\ vpc = "done"
    /\ limitStr = <<"1">>
    /\ votersLimit = 1
    /\ Len(vw) = 1
    /\ vw[1].status = StatusOK
    /\ Len(vw[1].Data.voters) = 1

\* The coordinator merges the user permissions scan in this step.
MergeRuns == gpc = "waitB" /\ gpc' = "query"

\* The members the mapping has for the rank, as a set.
MemberSet(m, rank) == IF rank \in DOMAIN m THEN Range(m[rank].Members) ELSE {}

\* The number of times the name is in the list.
Count(name, members) == Cardinality({i \in 1..Len(members) : members[i] = name})

\* The merge step gives the union, with the names of both scans once.
MergeGivesUnion ==
    LET a == collectedRanks
        b == Head(userPermissionsScanned)
        merged == collectedRanks'
    IN /\ DOMAIN merged = (DOMAIN a) \cup (DOMAIN b)
       /\ \A rank \in DOMAIN merged :
            /\ Range(merged[rank].Members) = MemberSet(a, rank) \cup MemberSet(b, rank)
            /\ \A name \in MemberSet(a, rank) \cap MemberSet(b, rank) :
                    Count(name, merged[rank].Members) = 1

\* The step changes neither the ranks nor the members of collectedRanks.
MembersKept ==
    /\ DOMAIN collectedRanks' = DOMAIN collectedRanks
    /\ \A rank \in DOMAIN collectedRanks :
            collectedRanks'[rank].Members = collectedRanks[rank].Members

\* C16: when both scans have delivered, the merge gives every rank of
\* either scan the set union of the members the two scans have for it, a
\* rank of Scan B alone included; a username both scans report for a rank
\* is in the rank's list once; and the lists stay as merged afterwards.
C16_MergeIsUnion ==
    /\ [][MergeRuns => MergeGivesUnion]_vars
    /\ [][(gpc \in {"query", "rows", "sendErr", "sendMap", "done"}) => MembersKept]_vars

\* A subtask is at a send on resultCh that can never proceed: the buffer is
\* full and the handler, the only receiver, has returned.
SendBlockedForever ==
    /\ hpc = "done"
    /\ Len(resultCh) = ResultChCap
    /\ \/ apc = "sendErr"
       \/ bpc = "sendErr"
       \/ gpc \in {"sendErr", "sendMap"}

\* C17: once the handler has responded, no subtask stays blocked forever on
\* a send to the result channel; the buffer absorbs every late value, also
\* when the deadline makes both scans' queries fail and each sends its error.
C17_NoSendBlockedForever == ~SendBlockedForever

\* The coordinator waits on a conduit whose scan has returned without a
\* value on it.
CoordinatorStuck ==
    \/ gpc = "waitA" /\ apc = "done" /\ primaryGroupsScanned = <<>>
    \/ gpc = "waitB" /\ bpc = "done" /\ userPermissionsScanned = <<>>

\* C18: each scan reports on its own conduit whether its query succeeds or
\* fails, so the coordinator never waits on a conduit that stays empty.
C18_CoordinatorNeverStuck == ~CoordinatorStuck

\* A scan puts its mapping on its conduit in this step.
ScanADelivers == Len(primaryGroupsScanned') > Len(primaryGroupsScanned)

ScanBDelivers == Len(userPermissionsScanned') > Len(userPermissionsScanned)

\* C19: a scan whose row iteration ended with an error does not deliver
\* its mapping, so every delivered mapping reflects the whole result.
C19_DeliveredMappingComplete ==
    /\ [][ScanADelivers => aRowsErr = ""]_vars
    /\ [][ScanBDelivers => bRowsErr = ""]_vars

\* The coordinator has received from the conduit of Scan A, of Scan B.
ReceivedA == gpc \notin {"start", "waitA"}

ReceivedB == gpc \notin {"start", "waitA", "waitB"}

\* C20: each scan writes its own mapping only, the scan has stopped for
\* good when its mapping is on its conduit or with the coordinator, and
\* collectedRanks is written by the coordinator alone, from the mappings
\* it has received.
C20_PrivateMappings ==
    /\ []((Len(primaryGroupsScanned) > 0 \/ ReceivedA) => apc = "done")
    /\ []((Len(userPermissionsScanned) > 0 \/ ReceivedB) => bpc = "done")
    /\ [][aCollected' # aCollected
            => apc \in {"rows", "deliver"} /\ UNCHANGED <<bCollected, collectedRanks>>]_vars
    /\ [][bCollected' # bCollected
            => bpc \in {"rows", "deliver"} /\ UNCHANGED <<aCollected, collectedRanks>>]_vars
    /\ [][collectedRanks' # collectedRanks
            => gpc \in {"waitA", "waitB", "rows"} /\ UNCHANGED <<aCollected, bCollected>>]_vars

\* The coordinator holds the mapping of Scan A while Scan B is still
\* filling its own.
C20_Witness ==
    /\ gpc = "waitB"
    /\ apc = "done"
    /\ DOMAIN collectedRanks # {}
    /\ bpc = "rows"
    /\ DOMAIN bCollected # {}

\* The enrichment query is issued in this step.
EnrichmentQueryRuns == Len(qlog'["E"]) > Len(qlog["E"])

\* C21: the enrichment query is issued only after both scans have
\* delivered and the coordinator has merged their mappings, and it is
\* never issued in a request in which a scan's query has failed.
C21_EnrichmentAfterBothScans ==
    /\ [][EnrichmentQueryRuns
            => /\ qlog["A"] = <<"ok">> /\ apc = "done"
               /\ qlog["B"] = <<"ok">> /\ bpc = "done"
               /\ primaryGroupsScanned = <<>> /\ userPermissionsScanned = <<>>
               /\ gpc = "query" /\ collectedRanks' = collectedRanks]_vars
    /\ []((qlog["A"] = <<"err">> \/ qlog["B"] = <<"err">>)
            => qlog["E"] = <<>> /\ gpc \in {"start", "waitA", "waitB"})

\* The enrichment query has run over a mapping merged from both scans.
C21_Witness ==
    /\ qlog["E"] = <<"ok">>
    /\ gpc = "rows"
    /\ \E rank \in DOMAIN collectedRanks :
        collectedRanks[rank].Members = <<"alice", "bob">>

\* ------------------------------------------------------------------------
\* Errors and faults of the subtasks
\* ------------------------------------------------------------------------

Queries == {"A", "B", "E"}

\* The query q has returned an error.
QueryFailed(q) == qlog[q] = <<"err">>

\* Where the subtask that runs the query q stands.
SubtaskPc(q) == IF q = "A" THEN apc ELSE IF q = "B" THEN bpc ELSE gpc

\* The number of error values sent on resultCh so far.
ErrorsSent == Cardinality({i \in 1..Len(resultLog) : resultLog[i].kind = "error"})

\* The query q has failed and its error can no longer be sent: the handler
\* has returned and resultCh is full.
ErrorNeverSent(q) ==
    /\ QueryFailed(q)
    /\ SubtaskPc(q) = "sendErr"
    /\ hpc = "done"
    /\ Len(resultCh) = ResultChCap

\* No subtask has ended in a panic.
NoSubtaskFault == gpc # "fault"

\* A failed query sends its subtask to the error send, and the error values
\* sent are those of the failed queries whose subtask has returned.
OneErrorPerReturnedFailure ==
    /\ \A q \in Queries : QueryFailed(q) => SubtaskPc(q) \in {"sendErr", "done"}
    /\ ErrorsSent = Cardinality({q \in Queries : QueryFailed(q) /\ SubtaskPc(q) = "done"})

\* C22: every error a query of the request returns becomes exactly one error
\* value sent on resultCh by the subtask that ran the query, and no subtask
\* ends with an unhandled fault, whatever rows the queries return.
C22_EveryQueryErrorSentOnce ==
    /\ NoSubtaskFault
    /\ OneErrorPerReturnedFailure
    /\ \A q \in Queries : ~ErrorNeverSent(q)

\* ------------------------------------------------------------------------
\* Data-consistency anomalies
\* ------------------------------------------------------------------------

\* All three queries of the request have succeeded.
AllQueriesSucceeded == \A q \in Queries : qlog[q] = <<"ok">>

\* A prefix node with a segment count other than 2 and 3.
IsMalformedPrefix(row) == row[2][1] = PREFIX /\ Len(row[2]) \notin {2, 3}

\* A group node with a segment count other than 2.
IsMalformedGroupNode(split) == Len(split) # 2

\* What the loop body makes of the mapping m for the enrichment row: an
\* orphan row and an unparseable weight leave m as it is, a malformed prefix
\* node empties the Title of its rank and leaves the rest.
DegradesGracefully(m, row) ==
    LET after == ApplyEnrichRow(m, row[1], row[2])
    IN /\ DOMAIN after = DOMAIN m
       /\ (IsOrphanRow(row, m) \/ IsUnparsedWeight(row)) => after = m
       /\ (IsMalformedPrefix(row) /\ ~IsOrphanRow(row, m))
            => after = [m EXCEPT ![row[1]].Title = <<>>]

\* C23 as stated: data-consistency anomalies never change the outcome; with
\* any mix of orphan rows, malformed group and prefix nodes and unparseable
\* weights, and all three queries succeeding before the deadline, the response
\* is 200 and the affected fields are left at their default or empty values.
C23_AnomaliesNeverChangeOutcome ==
    /\ gpc = "rows" => \A row \in GroupPermissionRows : DegradesGracefully(collectedRanks, row)
    /\ (AllQueriesSucceeded /\ hpc = "done") => w[1].status = StatusOK

\* C23 as amended: no anomalous row ends a loop, fails the request or puts a
\* value into the mapping; the affected fields stay at their default or empty
\* values, the coordinator still sends the mapping, and when all three
\* queries have succeeded the handler's select takes either the mapping, and
\* then the response is 200 with it, or the deadline.
C23_AnomaliesDegradeGracefully ==
    /\ [](gpc = "rows"
            => \A row \in GroupPermissionRows : DegradesGracefully(collectedRanks, row))
    /\ [](bpc = "rows"
            => \A row \in UserPermissionRows :
                IsMalformedGroupNode(row[1])
                    => ScanBRowApplied(bCollected, row[1], row[2]) = bCollected)
    /\ [][(gpc = "rows") => gpc' \in {"rows", "sendMap"}]_vars
    /\ [][(bpc = "rows") => bpc' \in {"rows", "deliver"}]_vars
    /\ []((AllQueriesSucceeded /\ hpc = "done")
            => \/ w = <<writeResponse(StatusOK, GroupsBody(collectedRanks))>> /\ gpc = "done"
               \/ w = <<TimedOutResponse>> /\ ctx # "live")

\* A 200 response after two enrichment rows that left every field of the
\* only rank of the mapping at its default: each was an orphan row, a
\* malformed prefix node, an unparseable weight or a row that did not decode.
C23_Witness ==
    /\ hpc = "done"
    /\ AllQueriesSucceeded
    /\ eRead >= 2
    /\ w[1].status = StatusOK
    /\ DOMAIN w[1].Data.groups = {"mod"}
    /\ w[1].Data.groups["mod"].Title = <<>>
    /\ w[1].Data.groups["mod"].Weight = 0
    /\ w[1].Data.groups["mod"].Color = GroupInfoZero.Color

\* ------------------------------------------------------------------------
\* Title and prefix literal
\* ------------------------------------------------------------------------

StaffLiteral == <<"&", "c", "&", "l", "S", "t", "a", "f", "f">>

VipLiteral == <<"&", "a", "V", "I", "P">>

\* The positions of the literal that are in no color-code match and hold no
\* backslash.  A match is two characters long and its second character is
\* never the first of another match, so matches do not overlap.
KeptPositions(literal) ==
    {i \in 1..Len(literal) :
        /\ ~ColorMatchAt(literal, i)
        /\ ~(i > 1 /\ ColorMatchAt(literal, i - 1))
        /\ literal[i] # "\\"}

RECURSIVE PickFrom(_, _, _)
PickFrom(literal, kept, i) ==
    IF i > Len(literal) THEN <<>>
    ELSE (IF i \in kept THEN <<literal[i]>> ELSE <<>>) \o PickFrom(literal, kept, i + 1)

\* The title C24 states for a prefix literal.
ClaimedTitle(literal) == PickFrom(literal, KeptPositions(literal), 1)

\* The loop body has just run for a prefix node with this literal, for a
\* rank of the mapping.
PrefixApplied(rank, literal) ==
    /\ EnrichRowRuns
    /\ LastEnrichRow' = <<rank, <<PREFIX, literal>>>>
    /\ rank \in DOMAIN enrichRanks

\* C24: for a rank with one prefix node, Title is the prefix literal with
\* every color-code match removed and then every backslash removed;
\* "&c&lStaff" gives "Staff" and "&aVIP" gives "VIP".
C24_TitleStripsEveryMatch ==
    /\ [](\A rank \in DOMAIN enrichRanks :
            \A i \in PrefixRowsOf(rank) :
                PrefixRowsOf(rank) = {i}
                    => enrichRanks[rank].Title
                            = ClaimedTitle(PrefixLiteral(enrichRows[i][2])))
    /\ [][\A rank \in EnrichRankNames :
            /\ PrefixApplied(rank, StaffLiteral)
                    => enrichRanks'[rank].Title = <<"S", "t", "a", "f", "f">>
            /\ PrefixApplied(rank, VipLiteral)
                    => enrichRanks'[rank].Title = <<"V", "I", "P">>]_vars

\* The loop has ended with "&c&lStaff" as the only prefix node of one rank
\* and a literal with a backslash as the only prefix node of another.
C24_Witness ==
    /\ enrichPc = "end"
    /\ enrichRows = << <<"mod", <<PREFIX, StaffLiteral>>>>,
                       <<"admin", <<PREFIX, <<"\\", "Y">>>>>> >>
    /\ DOMAIN enrichRanks = {"mod", "admin"}
    /\ enrichRanks["mod"].Title = <<"S", "t", "a", "f", "f">>
    /\ enrichRanks["admin"].Title = <<"Y">>

\* The prefix literal C25 states for a node split at its dots.
ClaimedLiteral(split) ==
    IF Len(split) \in {2, 3} THEN split[Len(split)] ELSE <<>>

\* The loop body runs in this step for a prefix node of a rank of the mapping.
PrefixNodeApplied ==
    /\ EnrichRowRuns
    /\ Len(LastEnrichRow') = 2
    /\ LastEnrichRow'[2][1] = PREFIX
    /\ LastEnrichRow'[1] \in DOMAIN enrichRanks

\* What C25 states of the step: Title and Color are those the stated literal gives,
\* and with the empty literal the Title is empty and the Color stays.
LiteralIsLastSegment ==
    LET rank == LastEnrichRow'[1]
        literal == ClaimedLiteral(LastEnrichRow'[2])
    IN /\ enrichRanks'[rank].Title = ClaimedTitle(literal)
       /\ enrichRanks'[rank].Color = ColorAfter(enrichRanks[rank].Color, literal)
       /\ literal = <<>>
            => /\ enrichRanks'[rank].Title = <<>>
               /\ enrichRanks'[rank].Color = enrichRanks[rank].Color

\* C25: the prefix literal of a prefix node is its last dot-segment when the
\* node has exactly 2 or exactly 3 segments and the empty string for every
\* other segment count; with the empty literal the rank's Title becomes
\* empty and its Color is not set by that node.
C25_PrefixLiteralIsLastSegment ==
    [][PrefixNodeApplied => LiteralIsLastSegment]_vars

\* The loop has ended after a three-segment prefix node that set Title and
\* Color of a rank and a four-segment prefix node that emptied the Title and
\* left the Color.
C25_Witness ==
    /\ enrichPc = "end"
    /\ enrichRows = << <<"mod", <<PREFIX, <<"1", "0">>, VipLiteral>>>>,
                       <<"mod", <<PREFIX, <<"a">>, <<"b">>, <<"c">>>>>> >>
    /\ "mod" \in DOMAIN enrichRanks
    /\ enrichRanks["mod"].Title = <<>>
    /\ enrichRanks["mod"].Color = "#55FF55"

\* ------------------------------------------------------------------------
\* The name filter of the enrichment query
\* ------------------------------------------------------------------------

\* name = '<rank>'
NameCondition(rank) ==
    <<"n", "a", "m", "e", " ", "=", " ", "'">> \o RankNameChars[rank] \o <<"'">>

\* The conditions of the ranks joined by " or ".
RECURSIVE JoinedConditions(_)
JoinedConditions(order) ==
    IF Len(order) = 1 THEN NameCondition(order[1])
    ELSE NameCondition(order[1]) \o <<" ", "o", "r", " ">> \o JoinedConditions(Tail(order))

\* The text is a condition SQL accepts between parentheses: the constant 1
\* when there is no rank, and else one name condition for each rank, joined
\* by " or ", with nothing before, between or after them.
WellFormedFilter(text, ranks) ==
    IF ranks = {} THEN text = <<"1">>
    ELSE \E order \in RangeOrders(ranks) : text = JoinedConditions(order)

\* The coordinator leaves the building of the filter in this step.
FilterBuilt == gpc = "query" /\ gpc' # "query"

\* Both scans have delivered and the merged mapping has no rank.
NoRankCollected ==
    /\ qlog["A"] = <<"ok">>
    /\ qlog["B"] = <<"ok">>
    /\ gpc \notin {"start", "waitA", "waitB"}
    /\ collectedRanks = EmptyMap

EmptyMappingResponse == writeResponse(StatusOK, GroupsBody(EmptyMap))

\* C26 as stated: when both scans succeed and the collected mapping is
\* empty, the enrichment query is still issued exactly once with a non-empty,
\* well-formed name filter, every row it returns is treated as orphan data,
\* and the request ends with status 200 and an empty mapping.
C26_EmptyMappingEndsWith200 ==
    /\ NoRankCollected => Len(qlog["E"]) <= 1
    /\ (NoRankCollected /\ hpc = "done") => w = <<EmptyMappingResponse>>

\* C26 as amended: with an empty collected mapping the coordinator does not
\* skip the enrichment query; it issues it once, with the filter "1"; every
\* row it returns leaves the mapping empty; and when the query succeeds and
\* the handler's select takes the mapping, the response is 200 with an empty
\* mapping.  Every filter built, for any mapping, is well formed.
C26_EmptyMappingStillQueried ==
    /\ []((NoRankCollected /\ gpc # "query") => Len(qlog["E"]) = 1)
    /\ [][FilterBuilt
            => /\ EnrichmentQueryRuns
               /\ \A filter \in NameFilters(collectedRanks) :
                    /\ filter.ok
                    /\ filter.text # <<>>
                    /\ WellFormedFilter(filter.text, DOMAIN collectedRanks)]_vars
    /\ [][(gpc = "rows" /\ collectedRanks = EmptyMap)
            => collectedRanks' = EmptyMap /\ gpc' \in {"rows", "sendMap"}]_vars
    /\ []((NoRankCollected /\ hres.case = "result" /\ hres.value.kind = "map" /\ Len(w) > 0)
            => w = <<EmptyMappingResponse>>)

\* A 200 response with an empty mapping after the enrichment query returned
\* rows.
C26_Witness ==
    /\ hpc = "done"
    /\ NoRankCollected
    /\ qlog["E"] = <<"ok">>
    /\ eRead >= 1
    /\ w = <<EmptyMappingResponse>>

\* ------------------------------------------------------------------------
\* Malformed nodes in Scan B
\* ------------------------------------------------------------------------

\* The loop body of Scan B runs for one more row in this step.
ScanBRowRuns == bRead' = bRead + 1

\* C27: in Scan B a permission node that does not split into exactly two
\* segments is skipped: it adds no member and no rank, the scan goes on with
\* the next row, and the scan still delivers its mapping.
C27_MalformedNodeSkipped ==
    /\ [][(ScanBRowRuns /\ IsMalformedGroupNode(permissionNode'))
            => bCollected' = bCollected /\ bpc' = "rows"]_vars
    /\ [][(bpc = "rows") => bpc' \in {"rows", "deliver"}]_vars
    /\ [][(bpc = "deliver") => (bpc' = "deliver" \/ ScanBDelivers)]_vars

\* Scan B has read a row with a member and then a node of three segments,
\* and is still in its loop with the member.
C27_Witness ==
    /\ bpc = "rows"
    /\ bRead >= 2
    /\ permissionNode = <<"group", "mod", "extra">>
    /\ DOMAIN bCollected = {"mod"}
    /\ bCollected["mod"].Members = <<"alice">>

\* ------------------------------------------------------------------------
\* The context of the request
\* ------------------------------------------------------------------------

\* The query q returns in this step.
QueryReturns(q) == Len(qlog'[q]) > Len(qlog[q])

\* The error the subtask of the query q holds.
SubtaskErr(q) == IF q = "A" THEN aErr ELSE IF q = "B" THEN bErr ELSE gErr

\* The rows the subtask of the query q has read.
SubtaskRead(q) == IF q = "A" THEN aRead ELSE IF q = "B" THEN bRead ELSE eRead

\* The query q, returning under a cancelled context, is aborted with the
\* context's error: its subtask reads no row and goes to send the error.
AbortedByContext(q) ==
    /\ qlog'[q] = <<"err">>
    /\ SubtaskErr(q)' = CtxError(ctx)
    /\ SubtaskPc(q)' = "sendErr"
    /\ SubtaskRead(q)' = 0

\* C29: the three queries of a request run under its one deadline-bound
\* context; once the deadline has expired or the handler has returned the
\* context is cancelled and stays cancelled, so a query that a straggler
\* subtask starts afterwards is aborted and does not run to completion.
C29_CancelledContextAbortsQueries ==
    /\ [][(ctx # "live") => ctx' = ctx]_vars
    /\ [](hpc = "done" => ctx # "live")
    /\ [][\A q \in Queries : (QueryReturns(q) /\ ctx # "live") => AbortedByContext(q)]_vars
    /\ [][\A q \in Queries : (QueryReturns(q) /\ qlog'[q] = <<"ok">>) => ctx = "live"]_vars

\* The handler has answered the error of Scan A's query and returned, and
\* Scan B's query, started after that, was aborted by the cancelled context.
C29_Witness ==
    /\ hpc = "done"
    /\ ctx = "canceled"
    /\ w = <<DatabaseErrorResponse>>
    /\ qlog["B"] = <<"err">>
    /\ bErr = CtxError("canceled")
    /\ bRead = 0

\* ------------------------------------------------------------------------
\* The mapping the handler encodes
\* ------------------------------------------------------------------------

\* The coordinator has sent its mapping on resultCh.
MappingSent == \E i \in 1..Len(resultLog) : resultLog[i].kind = "map"

\* The handler's select has taken the mapping.
MappingTaken == hpc \in {"chosen", "done"} /\ hres.case = "result" /\ hres.value.kind = "map"

\* C30: the mapping handed to the handler for a 200 response is final: once
\* the coordinator has sent it no subtask writes to it or to a GroupInfo in
\* it, so the handler never encodes a mapping that is being modified.
C30_SentMappingIsFinal ==
    /\ [][MappingSent => collectedRanks' = collectedRanks]_vars
    /\ [](MappingSent => gpc = "done" /\ apc = "done" /\ bpc = "done")
    /\ [](MappingTaken => MappingSent /\ hres.value.groups = collectedRanks)
    /\ []((MappingTaken /\ hpc = "done") => w[1].Data = GroupsBody(collectedRanks))

\* The handler has encoded a mapping whose rank has members from both scans
\* and a Title and a Weight the enrichment loop wrote.
C30_Witness ==
    /\ hpc = "done"
    /\ MappingTaken
    /\ gpc = "done"
    /\ w[1].status = StatusOK
    /\ \E rank \in DOMAIN collectedRanks :
        /\ collectedRanks[rank].Members = <<"alice", "bob">>
        /\ collectedRanks[rank].Title # <<>>
        /\ collectedRanks[rank].Weight = 5

\* ------------------------------------------------------------------------
\* Two requests in flight
\* ------------------------------------------------------------------------

\* The value the handler's select has taken was sent by a subtask of the
\* handler's own request, and is that subtask's error or mapping.
TakenFromOwnSubtask ==
    (hpc \in {"chosen", "done"} /\ hres.case = "result")
        => /\ \E i \in 1..Len(resultLog) : resultLog[i].kind = hres.value.kind
           /\ hres.value.kind = "error"
                => \E q \in Queries : QueryFailed(q) /\ hres.value.text = SubtaskErr(q)
           /\ hres.value.kind = "map" => hres.value.groups = collectedRanks

\* The response of the request follows from the outcomes of its own three
\* queries and from its own deadline.
ResponseFromOwnOutcomes ==
    \A i \in 1..Len(w) :
        /\ w[i] \in {writeResponse(StatusOK, GroupsBody(collectedRanks)),
                     DatabaseErrorResponse, TimedOutResponse}
        /\ w[i].status = StatusOK => AllQueriesSucceeded
        /\ w[i] = DatabaseErrorResponse => \E q \in Queries : QueryFailed(q)
        /\ w[i] = TimedOutResponse => ctx = "deadline"

\* A step changes the state of one request only: that of the other changes
\* only when the scheduler goes over to it, and is then found as it was left.
OneRequestPerStep ==
    other' # other => (other' = Request /\ Request' = other)

MergedAndSorted(a, b) == SortAll(MergeInto(CopyInto(EmptyMap, a), b))

\* C31: for fixed results of the scans the mapping of the 200 response is
\* the same whichever scan finishes first and whatever the iteration order
\* of the mappings.
C31_MergeIsDeterministic ==
    mergePc = "done" => mergeRanks = MergedAndSorted(scanned["A"], scanned["B"])

\* The merge has ended with Scan B delivered first, both scans with both
\* ranks, and a member list of Scan A with a name twice.
C31_Witness ==
    /\ mergePc = "done"
    /\ arrived = <<"B", "A">>
    /\ DOMAIN scanned["A"] = {"mod", "admin"}
    /\ DOMAIN scanned["B"] = {"mod", "admin"}
    /\ scanned["A"]["mod"].Members = <<"bob", "bob">>
    /\ scanned["B"]["mod"].Members = <<"bob", "alice">>
    /\ mergeRanks["mod"].Members = <<"alice", "bob", "bob">>

\* ------------------------------------------------------------------------
\* Several prefix nodes of one rank
\* ------------------------------------------------------------------------

\* What C32 states of a step that applies a prefix node to a rank of the
\* mapping: the Title is that of this node, and the Color changes only to
\* the hex value of the node's last match and stays when there is none.
LatestPrefixWins ==
    LET rank == LastEnrichRow'[1]
        literal == ClaimedLiteral(LastEnrichRow'[2])
        before == enrichRanks[rank]
        after == enrichRanks'[rank]
    IN /\ after.Title = ClaimedTitle(literal)
       /\ after.Color # before.Color => after.Color = ClaimedColor(literal)
       /\ ClaimedColor(literal) = "" => after.Color = before.Color
       /\ after.Weight = before.Weight

\* C32: the prefix nodes of a rank are applied in row order; the Title is
\* always overwritten by the latest, the Color only by a node whose last
\* color-code match is in the hex table, so a later node without a usable
\* color keeps the Color an earlier node set.
C32_PrefixNodesInRowOrder ==
    [][PrefixNodeApplied => LatestPrefixWins]_vars

\* The loop has ended after "&aVIP" and then "&c&lStaff" for one rank: the
\* Title is that of the second node, whose last match is a formatting code,
\* and the Color that of the first.
C32_Witness ==
    /\ enrichPc = "end"
    /\ enrichRows = << <<"mod", <<PREFIX, VipLiteral>>>>,
                       <<"mod", <<PREFIX, StaffLiteral>>>> >>
    /\ "mod" \in DOMAIN enrichRanks
    /\ enrichRanks["mod"].Title = <<"S", "t", "a", "f", "f">>
    /\ enrichRanks["mod"].Color = "#55FF55"

\* ------------------------------------------------------------------------
\* What the enrichment leaves alone
\* ------------------------------------------------------------------------

\* The two mappings have the same ranks and every rank the same members.
SameRanksAndMembers(m, n) ==
    /\ DOMAIN m = DOMAIN n
    /\ \A rank \in DOMAIN m : m[rank].Members = n[rank].Members

\* C33: the enrichment changes only Title, Color and Weight of ranks that
\* are in the collected mapping: the ranks of the mapping and the member
\* list of each are after the enrichment what they were after the sort.
C33_EnrichmentKeepsRanksAndMembers ==
    /\ [][EnrichRowRuns
            => /\ SameRanksAndMembers(enrichRanks', enrichRanks)
               /\ \A rank \in DOMAIN enrichRanks :
                    (Len(LastEnrichRow') = 2 /\ rank # LastEnrichRow'[1])
                        => enrichRanks'[rank] = enrichRanks[rank]]_vars
    /\ [](SameRanksAndMembers(enrichRanks, enrichStart))

\* The loop has ended after a weight and a prefix node that changed Weight,
\* Title and Color of a rank, with its members as they were.
C33_Witness ==
    /\ enrichPc = "end"
    /\ Len(enrichRows) = 2
    /\ "mod" \in DOMAIN enrichRanks
    /\ enrichRanks["mod"].Weight = 5
    /\ enrichRanks["mod"].Title = <<"V", "I", "P">>
    /\ enrichRanks["mod"].Color = "#55FF55"
    /\ enrichRanks["mod"].Members = UsernameOrder
    /\ enrichStart["mod"] = [GroupInfoZero EXCEPT !.Members = UsernameOrder]

\* ------------------------------------------------------------------------
\* Ranks and their members
\* ------------------------------------------------------------------------

\* Every rank of the mapping has a member.
EveryRankHasMember(m) == \A rank \in DOMAIN m : Len(m[rank].Members) >= 1

\* No rank of collectedRanks goes and none loses a member in this step.
NoMemberRemoved ==
    \A rank \in DOMAIN collectedRanks :
        /\ rank \in DOMAIN collectedRanks'
        /\ Len(collectedRanks'[rank].Members) >= Len(collectedRanks[rank].Members)

\* C34: every rank of a 200 staff response has at least one member: an
\* entry is created only together with its first member, and no step
\* removes a member.
C34_EveryRankHasMember ==
    /\ [](/\ EveryRankHasMember(aCollected)
          /\ EveryRankHasMember(bCollected)
          /\ \A i \in 1..Len(primaryGroupsScanned) : EveryRankHasMember(primaryGroupsScanned[i])
          /\ \A i \in 1..Len(userPermissionsScanned) : EveryRankHasMember(userPermissionsScanned[i])
          /\ EveryRankHasMember(collectedRanks)
          /\ \A i \in 1..Len(w) :
                w[i].status = StatusOK => EveryRankHasMember(w[i].Data.groups))
    /\ [][NoMemberRemoved]_vars

\* A 200 response with two ranks, one with the member of Scan A and one
\* with the member of Scan B.
C34_Witness ==
    /\ hpc = "done"
    /\ w[1].status = StatusOK
    /\ DOMAIN w[1].Data.groups = {"mod", "admin"}
    /\ w[1].Data.groups["mod"].Members = <<"alice">>
    /\ w[1].Data.groups["admin"].Members = <<"bob">>

\* ------------------------------------------------------------------------
\* A rejected votes request
\* ------------------------------------------------------------------------

\* The votes request has been answered 400.
LimitRejected == \E i \in 1..Len(vw) : vw[i].status = StatusBadRequest

\* C35: a votes request rejected with 400 has no other effect: no context
\* is made, no worker is started and no query is issued; an absent or empty
\* limit is taken as no limit and is never rejected.
C35_RejectionHasNoOtherEffect ==
    /\ [](LimitRejected
            => /\ vpc = "done"
               /\ Len(vw) = 1
               /\ vctx = "none"
               /\ wpc = "unborn"
               /\ vResultCh = <<>>
               /\ votersLimit = NoLimit
               /\ vRead = 0)
    /\ [][LimitRejected => votesVars' = votesVars]_vars
    /\ []((limitStr = <<>> /\ vpc # "parse")
            => /\ ~LimitRejected
               /\ votersLimit = NoLimit
               /\ vctx # "none"
               /\ wpc # "unborn")

\* The limit "0a" was rejected and nothing else has happened.
C35_Witness ==
    /\ limitStr = <<"0", "a">>
    /\ vpc = "done"
    /\ vw = <<InvalidLimitResponse(limitStr)>>
    /\ wpc = "unborn"
    /\ vctx = "none"

\* ------------------------------------------------------------------------
\* The single send of the votes worker
\* ------------------------------------------------------------------------

\* The votes worker's query has returned and the worker has not ended.
VotesWorkerPastQuery == wpc \in {"rows", "sendErr", "sendRows"}

\* The votes worker is at one of its two send statements.
VotesWorkerAtSend == wpc \in {"sendErr", "sendRows"}

\* The number of values that have been placed on the votes result channel:
\* those still buffered and the one the handler has taken.
VotesValuesSent ==
    Len(vResultCh) + (IF vres # NoCase /\ vres.case = "result" THEN 1 ELSE 0)

\* The votes handler has answered "timed out".
VotesTimedOut == vpc = "done" /\ vw = <<TimedOutResponse>>

\* A step places a value on the votes result channel.
VotesValuePlaced == Len(vResultCh') > Len(vResultCh)

\* C36: exactly one value is ever sent on the votes result channel, so the
\* worker never blocks on its send and always ends once its query has
\* returned, also after the handler has answered "timed out".
C36_WorkerSendsOnceAndEnds ==
    /\ [](VotesWorkerAtSend => Len(vResultCh) < ResultChCap)
    /\ [](VotesValuesSent = (IF wpc = "done" THEN 1 ELSE 0))
    /\ [][VotesValuePlaced => (VotesWorkerAtSend /\ wpc' = "done")]_vars
    /\ [][wpc = "done" => wpc' = "done"]_vars
    /\ (VotesWorkerPastQuery ~> wpc = "done")
    /\ ((VotesTimedOut /\ VotesWorkerPastQuery) ~> (VotesTimedOut /\ wpc = "done"))

\* The handler answered "timed out", and the worker then sent its rows
\* and ended; the value stays in the channel.
C36_Witness ==
    /\ VotesTimedOut
    /\ wpc = "done"
    /\ Len(vResultCh) = 1
    /\ vResultCh[1].kind = "voters"

====
